---- MODULE Spec2Model ----
(***************************************************************************)
(* Model of the airport assistant's session core (src/app.py): the Flask   *)
(* session dict, the /ask turn state machine, the itinerary store, the     *)
(* catalog resolution and the text predicates that decide the branches.    *)
(*                                                                         *)
(* Text is modelled as TLA+ strings, processed character by character.     *)
(* Two characters of the source that TLA+ strings cannot hold are written  *)
(* in ASCII: U+2019 (right single quote) as "'" and U+2014 (em dash) as    *)
(* the token "--"; the receipt emoji that ends the add confirmation is     *)
(* left out, and the two system prompts are named by their first sentence. *)
(***************************************************************************)
EXTENDS Integers, Sequences, FiniteSets, TLC

\* session: the requesting client's Flask session; last: the request just
\* served; peer: the session of a second client; store: the module-level
\* stores built at startup
VARIABLES session, last, peer, store

vars == <<session, last, peer, store>>

(***************************************************************************)
(* Bounds of the model.                                                    *)
(***************************************************************************)
MaxHistory == 4

(***************************************************************************)
(* Python dict helpers (session is a dict from key to value).              *)
(***************************************************************************)
EmptyDict == [k \in {} |-> 0]

\* f with every value computed, once
Tabulated(f) == f @@ EmptyDict

\* Body(x) with x bound to the value of v: a local variable of the code
With(v, Body(_)) == CHOOSE r \in {Body(x) : x \in {v}} : TRUE

Has(d, k) == k \in DOMAIN d

Get(d, k, default) == IF k \in DOMAIN d THEN d[k] ELSE default

Put(d, k, v) == [x \in (DOMAIN d) \cup {k} |-> IF x = k THEN v ELSE d[x]]

Pop(d, k) == [x \in (DOMAIN d) \ {k} |-> d[x]]

(***************************************************************************)
(* Python str helpers.                                                     *)
(***************************************************************************)
UpperAlpha == "ABCDEFGHIJKLMNOPQRSTUVWXYZ"
LowerAlpha == "abcdefghijklmnopqrstuvwxyz"
DigitChars == "0123456789"

Ch(s, i) == SubSeq(s, i, i)

IndexIn(alphabet, c) ==
    IF \E i \in 1..Len(alphabet) : Ch(alphabet, i) = c
    THEN CHOOSE i \in 1..Len(alphabet) : Ch(alphabet, i) = c
    ELSE 0

IsUpperCh(c) == IndexIn(UpperAlpha, c) > 0
IsLowerCh(c) == IndexIn(LowerAlpha, c) > 0
IsDigitCh(c) == IndexIn(DigitChars, c) > 0
IsSpaceCh(c) == c = " "
IsWordCh(c) == IsUpperCh(c) \/ IsLowerCh(c) \/ IsDigitCh(c) \/ c = "_"

LowerCh(c) == IF IsUpperCh(c) THEN Ch(LowerAlpha, IndexIn(UpperAlpha, c)) ELSE c
UpperCh(c) == IF IsLowerCh(c) THEN Ch(UpperAlpha, IndexIn(LowerAlpha, c)) ELSE c

RECURSIVE Lower(_)
Lower(s) == IF Len(s) = 0 THEN "" ELSE LowerCh(Ch(s, 1)) \o Lower(SubSeq(s, 2, Len(s)))

RECURSIVE Upper(_)
Upper(s) == IF Len(s) = 0 THEN "" ELSE UpperCh(Ch(s, 1)) \o Upper(SubSeq(s, 2, Len(s)))

\* str.title(): a cased letter is upper-cased after an uncased character
\* (or at the start) and lower-cased after a cased one.
RECURSIVE TitleFrom(_, _)
TitleFrom(s, prevCased) ==
    IF Len(s) = 0 THEN ""
    ELSE LET c == Ch(s, 1)
             cased == IsUpperCh(c) \/ IsLowerCh(c)
         IN (IF prevCased THEN LowerCh(c) ELSE UpperCh(c))
              \o TitleFrom(SubSeq(s, 2, Len(s)), cased)

Title(s) == TitleFrom(s, FALSE)

RECURSIVE LStrip(_)
LStrip(s) == IF Len(s) > 0 /\ IsSpaceCh(Ch(s, 1)) THEN LStrip(SubSeq(s, 2, Len(s))) ELSE s

RECURSIVE RStrip(_)
RStrip(s) == IF Len(s) > 0 /\ IsSpaceCh(Ch(s, Len(s))) THEN RStrip(SubSeq(s, 1, Len(s) - 1)) ELSE s

Strip(s) == RStrip(LStrip(s))

\* w at position i of t
At(t, i, w) == i >= 1 /\ i + Len(w) - 1 <= Len(t) /\ SubSeq(t, i, i + Len(w) - 1) = w

\* Python `w in t`
Contains(t, w) == \E i \in 1..(Len(t) - Len(w) + 1) : At(t, i, w)

\* re.fullmatch(r"\d+", s)
IsDigits(s) == Len(s) > 0 /\ \A i \in 1..Len(s) : IsDigitCh(Ch(s, i))

\* int(s) for a string of decimal digits
RECURSIVE ToInt(_)
ToInt(s) == IF Len(s) = 0 THEN 0
            ELSE 10 * ToInt(SubSeq(s, 1, Len(s) - 1)) + (IndexIn(DigitChars, Ch(s, Len(s))) - 1)

(***************************************************************************)
(* Cuisine / intent helpers (src/app.py 224-257).                          *)
(***************************************************************************)
CUISINES ==
    << "indian", "pakistani", "lebanese", "italian", "french", "japanese", "thai", "chinese",
       "american", "mexican", "turkish", "korean", "arabic", "mediterranean", "seafood", "burger",
       "pizza", "vegetarian", "vegan", "dessert", "coffee" >>

YES_WORDS == {"yes", "y", "yeah", "yep", "sure", "okay", "ok", "please", "go ahead", "do it"}

NO_WORDS == {"no", "n", "nope", "not now", "later", "don't", "dont"}

\* re.search(rf"\b{c}\b", t): c stands between two word boundaries
WordAt(t, i, c) ==
    /\ At(t, i, c)
    /\ (i = 1 \/ ~IsWordCh(Ch(t, i - 1)))
    /\ (i + Len(c) > Len(t) \/ ~IsWordCh(Ch(t, i + Len(c))))

HasWord(t, c) == \E i \in 1..(Len(t) - Len(c) + 1) : WordAt(t, i, c)

extract_cuisine(text) ==
    LET t == Lower(text)
        hits == {k \in 1..Len(CUISINES) : HasWord(t, CUISINES[k])}
    IN IF hits = {} THEN ""
       ELSE CUISINES[CHOOSE k \in hits : \A j \in hits : k <= j]

says_yes(text) == LET t == Strip(Lower(text)) IN \E w \in YES_WORDS : Contains(t, w)

says_no(text) == LET t == Strip(Lower(text)) IN \E w \in NO_WORDS : Contains(t, w)

(***************************************************************************)
(* Category detection (src/app.py 287-297).  The dict is iterated in       *)
(* insertion order: dining, shopping, relax.                               *)
(***************************************************************************)
CATEGORY_KEYS == << "dining", "shopping", "relax" >>

CATEGORY_WORDS(cat) ==
    CASE cat = "dining" ->
           {"dining", "eat", "food", "restaurant", "cuisine", "breakfast", "lunch", "dinner",
            "snack", "meal", "drink", "coffee", "bar", "cafe"}
      [] cat = "shopping" ->
           {"shopping", "shop", "buy", "stores", "boutique", "retail", "gift", "souvenir",
            "clothes", "apparel", "electronics", "books", "magazine"}
      [] cat = "relax" ->
           {"relax", "lounge", "spa", "rest", "massage", "quiet", "meditate", "yoga", "nap",
            "sleep", "chill", "unwind", "calm"}

\* the first category one of whose keywords occurs in the text, "" when none
keyword_category(text) ==
    LET t == Lower(text)
        hits == {k \in 1..Len(CATEGORY_KEYS) :
                    \E w \in CATEGORY_WORDS(CATEGORY_KEYS[k]) : Contains(t, w)}
    IN IF hits = {} THEN ""
       ELSE Title(CATEGORY_KEYS[CHOOSE k \in hits : \A j \in hits : k <= j])

(***************************************************************************)
(* The explicit-add pattern of /ask (src/app.py 396), flags=re.I:          *)
(*   add\s+(.+?)\s+(?:to|into)\s+my\s+(dining|shopping|relax)\s+itinerary  *)
(* \s is the space character here (the modelled messages hold no other     *)
(* white space).                                                           *)
(***************************************************************************)
RECURSIVE WsRunEnd(_, _)
WsRunEnd(t, i) == IF i <= Len(t) /\ IsSpaceCh(Ch(t, i)) THEN WsRunEnd(t, i + 1) ELSE i

\* \s+w1\s+w2...: the position after the last word, 0 when there is no match
RECURSIVE MatchWords(_, _, _)
MatchWords(t, i, words) ==
    IF Len(words) = 0 THEN i
    ELSE LET j == WsRunEnd(t, i)
         IN IF j > i /\ At(t, j, Head(words))
            THEN MatchWords(t, j + Len(Head(words)), Tail(words))
            ELSE 0

AddConnectors == << "to", "into" >>

AddTailCat(t, i) ==
    LET ok == {c \in 1..Len(CATEGORY_KEYS) :
                  \E n \in 1..Len(AddConnectors) :
                      MatchWords(t, i, <<AddConnectors[n], "my", CATEGORY_KEYS[c], "itinerary">>) > 0}
    IN IF ok = {} THEN "" ELSE CATEGORY_KEYS[CHOOSE c \in ok : TRUE]

\* the candidate matches: start of "add", first and last character of group 1
AddCandidates(t) ==
    UNION {UNION {{<<i, gs, ge>> : ge \in {e \in gs..Len(t) : AddTailCat(t, e + 1) # ""}} :
                    gs \in (i + 4)..WsRunEnd(t, i + 3)} :
             i \in {j \in 1..Len(t) : At(t, j, "add")}}

\* the match the backtracking search finds first: leftmost "add", longest
\* white space after it, shortest group 1
m_add(question) ==
    LET t == Lower(question)
        cands == AddCandidates(t)
    IN IF cands = {} THEN [matched |-> FALSE, place |-> "", cat |-> ""]
       ELSE LET i == CHOOSE i \in {m[1] : m \in cands} : \A m \in cands : i <= m[1]
                gs == CHOOSE g \in {m[2] : m \in {x \in cands : x[1] = i}} :
                          \A m \in {x \in cands : x[1] = i} : g >= m[2]
                ge == CHOOSE e \in {m[3] : m \in {x \in cands : x[1] = i /\ x[2] = gs}} :
                          \A m \in {x \in cands : x[1] = i /\ x[2] = gs} : e <= m[3]
            IN [matched |-> TRUE,
                place |-> Strip(SubSeq(question, gs, ge)),
                cat |-> Title(AddTailCat(t, ge + 1))]

(***************************************************************************)
(* Startup-built data (src/app.py 105-162): the embedded chunk texts and   *)
(* the catalog items, a fixed small corpus.  PyNone stands for None.       *)
(***************************************************************************)
PyNone == "<None>"

\* str(x) of an optional string
StrOf(x) == IF x = PyNone THEN "None" ELSE x

embedded_chunks ==
    << "Title: Thai Spot\nCategories: Thai\nLocations: Concourse C, Level 1",
       "Title: Curry House\nCategories: Indian\nLocations: Concourse B, Level 2",
       "Title: Book Nook\nCategories: Books\nLocations: Concourse B, Level 1" >>

CATALOG_ALL ==
    << [id |-> "B01-UL001-IDC0431", location_ids |-> <<"B01-UL001-IDC0431">>,
        name |-> "Thai Spot", description |-> "Thai kitchen",
        concourse |-> "Concourse C, Level 1", categories |-> <<"Thai">>, image |-> PyNone],
       [id |-> "B01-UL001-IDC0500", location_ids |-> <<"B01-UL001-IDC0500">>,
        name |-> "Curry House", description |-> "Curries",
        concourse |-> "Concourse C, Level 1", categories |-> <<"Indian">>, image |-> "curry.png"],
       [id |-> "B01-UL002-IDB0364", location_ids |-> <<"B01-UL002-IDB0364">>,
        name |-> "Curry House", description |-> "Curries",
        concourse |-> "Concourse B, Level 2", categories |-> <<"Indian">>, image |-> "curry.png"] >>

\* re.sub(r"[^a-z0-9]+", "", s.lower())
RECURSIVE KeepAlnum(_)
KeepAlnum(s) ==
    IF Len(s) = 0 THEN ""
    ELSE (IF IsLowerCh(Ch(s, 1)) \/ IsDigitCh(Ch(s, 1)) THEN Ch(s, 1) ELSE "")
           \o KeepAlnum(SubSeq(s, 2, Len(s)))

norm_name(s) == KeepAlnum(Lower(s))

\* CATALOG_INDEX.get(_norm_name(name), [])
match_catalog_by_name(name) ==
    IF name = "" THEN <<>>
    ELSE SelectSeq(CATALOG_ALL, LAMBDA it : norm_name(it.name) = norm_name(name))

\* re.search(r"Concourse\s+([A-E])", label, flags=re.I): the letter, upper-cased
concourse_letter_from_label(label) ==
    LET t == Lower(label)
        hits == {i \in 1..Len(t) :
                    /\ At(t, i, "concourse")
                    /\ WsRunEnd(t, i + 9) > i + 9
                    /\ \E c \in {"a", "b", "c", "d", "e"} : At(t, WsRunEnd(t, i + 9), c)}
    IN IF hits = {} THEN ""
       ELSE LET i == CHOOSE i \in hits : \A j \in hits : i <= j
            IN Upper(Ch(t, WsRunEnd(t, i + 9)))

\* smart.infer_concourse_from_gate: the gate's first letter, A-E
infer_concourse_from_gate(gate) ==
    LET g == Upper(Strip(gate))
    IN IF Len(g) > 0 /\ \E c \in {"A", "B", "C", "D", "E"} : Ch(g, 1) = c
       THEN "Concourse " \o Ch(g, 1)
       ELSE "Unknown"

\* the candidates of best_catalog_match (src/app.py 180-194): the exact
\* normalized matches, else the names equal ignoring case, else the names
\* containing the place
match_candidates(place) ==
    IF place = "" THEN <<>>
    ELSE LET exact == match_catalog_by_name(place)
             pname == Lower(Strip(place))
             same == SelectSeq(CATALOG_ALL, LAMBDA it : Lower(it.name) = pname)
             sub == SelectSeq(CATALOG_ALL, LAMBDA it : Contains(Lower(it.name), pname))
         IN IF Len(exact) > 0 THEN exact
            ELSE IF Len(same) > 0 THEN same ELSE sub

\* a match that takes the first candidate whatever the gate
best_catalog_match_first(place, gate) ==
    IF Len(match_candidates(place)) = 0 THEN <<>> ELSE <<match_candidates(place)[1]>>

\* best_catalog_match (src/app.py 173-214): <<>> for None, <<item>> otherwise
best_catalog_match(place, gate) ==
    IF place = "" THEN <<>>
    ELSE LET exact == match_catalog_by_name(place)
             pname == Lower(Strip(place))
             same == SelectSeq(CATALOG_ALL, LAMBDA it : Lower(it.name) = pname)
             sub == SelectSeq(CATALOG_ALL, LAMBDA it : Contains(Lower(it.name), pname))
             candidates == IF Len(exact) > 0 THEN exact
                           ELSE IF Len(same) > 0 THEN same ELSE sub
             gate_letter == concourse_letter_from_label(infer_concourse_from_gate(gate))
             preferred == SelectSeq(candidates,
                              LAMBDA it : concourse_letter_from_label(it.concourse) = gate_letter)
         IN IF Len(candidates) = 0 THEN <<>>
            ELSE IF Len(candidates) = 1 THEN <<candidates[1]>>
            ELSE IF gate_letter # "" /\ Len(preferred) > 0 THEN <<preferred[1]>>
            ELSE <<candidates[1]>>

\* cuisine_exists_in_concourse (src/app.py 248-257)
cuisine_exists_in_concourse(cuisine, concourse) ==
    IF cuisine = "" \/ concourse = "" THEN FALSE
    ELSE \E k \in 1..Len(embedded_chunks) :
            /\ Contains(Lower(embedded_chunks[k]), Lower(cuisine))
            /\ Contains(Lower(embedded_chunks[k]), Lower(concourse))

(***************************************************************************)
(* Message contents are sequences of tokens: a piece of text, a number, or *)
(* one of the markup tokens below ("<span>" stands for <span ...> with any *)
(* attributes, "--" for the em dash).  White space between tokens is       *)
(* what \s* of RECO_REGEX skips.                                           *)
(***************************************************************************)
RECURSIVE JoinToks(_)
JoinToks(toks) == IF Len(toks) = 0 THEN "" ELSE Head(toks) \o JoinToks(Tail(toks))

\* the tokens pat stand at position i of toks
ToksAt(toks, i, pat) ==
    /\ i >= 1
    /\ i + Len(pat) - 1 <= Len(toks)
    /\ \A k \in 1..Len(pat) : toks[i + k - 1] = pat[k]

\* the first position >= from where pat stands, 0 when there is none
FirstToks(toks, from, pat) ==
    LET hits == {i \in from..Len(toks) : ToksAt(toks, i, pat)}
    IN IF from < 1 \/ hits = {} THEN 0 ELSE CHOOSE i \in hits : \A j \in hits : i <= j

\* RECO_REGEX (src/app.py 300-303) tried at token p: <<>> or <<entry>>, the
\* lazy groups ending at the first place where the rest of the pattern goes on
RecoAt(toks, p) ==
    IF ~(p + 2 <= Len(toks) /\ IsDigits(toks[p]) /\ toks[p + 1] = "." /\ toks[p + 2] = "<strong>")
    THEN <<>>
    ELSE
    With(FirstToks(toks, p + 3, <<"</strong>", "--">>), LAMBDA a :
    IF a = 0 THEN <<>> ELSE
    With(FirstToks(toks, a + 2, <<"<br>", "<span>">>), LAMBDA b :
    IF b = 0 THEN <<>> ELSE
    With(FirstToks(toks, b + 2, <<"</span>", "<br>", "<span>">>), LAMBDA c :
    IF c = 0 THEN <<>> ELSE
    With(FirstToks(toks, c + 3, <<"</span>">>), LAMBDA d :
    IF d = 0 THEN <<>>
    ELSE << [ord |-> toks[p],
             name |-> JoinToks(SubSeq(toks, p + 3, a - 1)),
             desc |-> JoinToks(SubSeq(toks, a + 2, b - 1)),
             walk |-> JoinToks(SubSeq(toks, b + 2, c - 1)),
             conc |-> JoinToks(SubSeq(toks, c + 3, d - 1)),
             end |-> d] >>))))

\* RECO_REGEX.findall from token p on
RECURSIVE FindAllFrom(_, _)
FindAllFrom(toks, p) ==
    IF p > Len(toks) THEN <<>>
    ELSE With(RecoAt(toks, p), LAMBDA m :
            IF Len(m) = 0 THEN FindAllFrom(toks, p + 1)
            ELSE <<m[1]>> \o FindAllFrom(toks, m[1].end + 1))

parse_recos_from_html(html) == FindAllFrom(html, 1)

\* the content of the most recent assistant message, "" (no token) when none
RECURSIVE LastAssistant(_)
LastAssistant(history) ==
    IF Len(history) = 0 THEN <<>>
    ELSE IF history[Len(history)].role = "assistant" THEN history[Len(history)].content
    ELSE LastAssistant(SubSeq(history, 1, Len(history) - 1))

\* The tokens of a message the server builds around user text: the markup
\* RECO_REGEX looks for, and the text runs between it, stripped; a run ending
\* in digits and a full stop right before <strong> gives the ordinal and the
\* stop.  A text without markup is one token.
MarkupTokens == <<"<strong>", "</strong>", "<br>", "<span>", "</span>", "--">>

MarkupAt(s, i) == {k \in 1..Len(MarkupTokens) : At(s, i, MarkupTokens[k])}

FirstMarkup(s) ==
    IF \E i \in 1..Len(s) : MarkupAt(s, i) # {}
    THEN CHOOSE i \in 1..Len(s) : MarkupAt(s, i) # {} /\ \A j \in 1..(i - 1) : MarkupAt(s, j) = {}
    ELSE 0

\* the start of the run of digits that ends at position i
RECURSIVE DigitRunStart(_, _)
DigitRunStart(u, i) == IF i >= 1 /\ IsDigitCh(Ch(u, i)) THEN DigitRunStart(u, i - 1) ELSE i + 1

TextTokens(t, before_strong) ==
    With(Strip(t), LAMBDA u :
    IF u = "" THEN <<>>
    ELSE IF before_strong /\ Ch(u, Len(u)) = "." /\ DigitRunStart(u, Len(u) - 1) <= Len(u) - 1
    THEN With(DigitRunStart(u, Len(u) - 1), LAMBDA d :
            (IF Strip(SubSeq(u, 1, d - 1)) = "" THEN <<>> ELSE <<Strip(SubSeq(u, 1, d - 1))>>)
              \o <<SubSeq(u, d, Len(u) - 1), ".">>)
    ELSE <<u>>)

RECURSIVE MarkedTokens(_)
MarkedTokens(s) ==
    With(FirstMarkup(s), LAMBDA i :
    IF i = 0 THEN TextTokens(s, FALSE)
    ELSE With(MarkupTokens[CHOOSE k \in MarkupAt(s, i) : TRUE], LAMBDA m :
            TextTokens(SubSeq(s, 1, i - 1), m = "<strong>") \o <<m>>
              \o MarkedTokens(SubSeq(s, i + Len(m), Len(s)))))

HtmlTokens(s) == IF FirstMarkup(s) = 0 THEN <<s>> ELSE MarkedTokens(s)

(***************************************************************************)
(* Itinerary helpers (src/app.py 260-285).                                 *)
(***************************************************************************)
Categories == {"Dining", "Shopping", "Relax"}

\* a faulty initialiser that creates the Dining bucket alone
init_itinerary_dining_only(sess) ==
    IF Has(sess, "itinerary") THEN sess
    ELSE Put(sess, "itinerary", [c \in {"Dining"} |-> <<>>])

init_itinerary(sess) ==
    IF Has(sess, "itinerary") THEN sess
    ELSE Put(sess, "itinerary", [c \in Categories |-> <<>>])

\* a faulty add that appends without looking for the entry
add_to_itinerary_always(sess, category, place, description, concourse, walk_time, image_url, item_id, location_ids) ==
    With(init_itinerary(sess), LAMBDA s1 :
    With(Title(category), LAMBDA cat :
    With(IF cat \in DOMAIN s1["itinerary"] THEN s1["itinerary"]
         ELSE Put(s1["itinerary"], cat, <<>>), LAMBDA itin :
    Put(s1, "itinerary",
        Put(itin, cat,
            Append(itin[cat],
                   [id |-> item_id, location_ids |-> location_ids, name |-> place,
                    description |-> description, concourse |-> concourse,
                    walk_time |-> walk_time, image |-> image_url])))
    )))

add_to_itinerary(sess, category, place, description, concourse, walk_time, image_url, item_id, location_ids) ==
    With(init_itinerary(sess), LAMBDA s1 :
    With(Title(category), LAMBDA cat :
    With(IF cat \in DOMAIN s1["itinerary"] THEN s1["itinerary"]
         ELSE Put(s1["itinerary"], cat, <<>>), LAMBDA itin :
    IF \E k \in 1..Len(itin[cat]) :
          /\ Lower(itin[cat][k].name) = Lower(place)
          /\ StrOf(itin[cat][k].id) = StrOf(item_id)
    THEN Put(s1, "itinerary", itin)
    ELSE Put(s1, "itinerary",
             Put(itin, cat,
                 Append(itin[cat],
                        [id |-> item_id, location_ids |-> location_ids, name |-> place,
                         description |-> description, concourse |-> concourse,
                         walk_time |-> walk_time, image |-> image_url])))
    )))

(***************************************************************************)
(* The modelled inputs: the questions a request may carry, the gate it may *)
(* carry, the draws of random_gate() and the chat model's outcomes.        *)
(***************************************************************************)
Questions ==
    { "", "  ",
      "add Curry House to my dining itinerary",
      "ADD noodle bar INTO MY Shopping ITINERARY",
      "2", "9", "0",
      "yes", "no", "thai", "shop",
      "indian or thai" }

\* an add command whose place is an entry in the format of the chat model's
\* lists
MarkedAdd ==
    "add 1. <strong>Thai Spot</strong> -- x<br><span>y</span><br><span>z</span> to my dining itinerary"

\* the questions of the turns around a numeric selection
SelectionQuestions ==
    {MarkedAdd, "add Curry House to my dining itinerary", "1", "9", "thai", "no"}

AllQuestions == Questions \cup SelectionQuestions

RequestGates == {""}

DEFAULT_GATES ==
    << "C31", "C24", "D1", "D3", "B5", "B10", "A11", "A9", "E2", "E4",
       "E7", "A5", "C15", "D6", "C20", "B1", "D9", "E12", "A3", "C12" >>

\* the modelled draws of random.choice(DEFAULT_GATES)
GateDraws == {1, 5}

random_gate == {DEFAULT_GATES[k] : k \in GateDraws}

RecoEntry(n, name, desc, conc) ==
    << n, ".", "<strong>", name, "</strong>", "--", desc, "<br>",
       "<span>", "located within 5 min walk", "</span>", "<br>",
       "<span>", conc, "</span>" >>

RecoList3 ==
    RecoEntry("1", "Thai Spot", "thai kitchen", "Concourse C, Level 1")
      \o RecoEntry("2", "Curry House", "curries", "Concourse B, Level 2")
      \o RecoEntry("3", "Noodle Bar", "noodles", "Concourse B, Level 1")
      \o <<"Reply with the number to save it to your itinerary.">>

PlainReply == <<"Would you like Dining, Shopping or Relax?">>

ModelReplies == {RecoList3, PlainReply}

\* what the two external calls of a recommendation do: the retrieval embeds
\* the question and returns or raises, the chat model then replies or raises
ModelOutcomes ==
    {[search_ok |-> TRUE, ok |-> TRUE, content |-> r] : r \in ModelReplies}
      \cup {[search_ok |-> TRUE, ok |-> FALSE, content |-> <<>>],
            [search_ok |-> FALSE, ok |-> FALSE, content |-> <<>>]}

\* the scanner form's fields
ScanNames == {"Ana"}
ScanFlights == {"QR1"}
ScanGates == {"", "b5"}
ScanTimes == {""}

\* the gates a turn can work with
TurnGates == {Upper(Strip(g)) : g \in (RequestGates \cup ScanGates \cup random_gate)} \ {""}

ConcourseNames == {infer_concourse_from_gate(g) : g \in TurnGates}

\* what the handler computes from the question text alone, per modelled question
QuestionFacts ==
    Tabulated([q \in AllQuestions |->
        LET question == Strip(q)
        IN [question |-> question,
            category |-> keyword_category(question),
            m_add |-> m_add(question),
            digits |-> IsDigits(question),
            cuisine |-> extract_cuisine(question),
            yes |-> says_yes(question),
            no |-> says_no(question)]])

\* the place names a turn can look up: those of the add commands and those
\* of the chat model's lists
TurnPlaces ==
    {QuestionFacts[q].m_add.place : q \in AllQuestions}
      \cup UNION {{parse_recos_from_html(r)[k].name : k \in 1..Len(parse_recos_from_html(r))} :
                    r \in ModelReplies}

\* best_catalog_match and cuisine_exists_in_concourse read startup data only:
\* their results per modelled argument
BestMatch == Tabulated([a \in TurnPlaces \X TurnGates |-> best_catalog_match(a[1], a[2])])

CuisineExists ==
    Tabulated([a \in ({CUISINES[k] : k \in 1..Len(CUISINES)} \cup {""}) \X ConcourseNames |->
                cuisine_exists_in_concourse(a[1], a[2])])

\* a faulty detection that falls back to Dining instead of the previous category
detect_category_default_dining(F, sess) ==
    IF F.category # "" THEN F.category ELSE "Dining"

\* F.category is the keyword category of the question text
detect_category_from_text(F, sess) ==
    IF F.category # "" THEN F.category ELSE Get(sess, "current_category", "Dining")

(***************************************************************************)
(* The replies the /ask handler writes itself (src/app.py 427-535); the    *)
(* trailing receipt emoji of the confirmations is left out.                *)
(***************************************************************************)
AddedReply(place, cat) == place \o " has been added to your " \o cat \o " itinerary."

Nudger ==
    "I couldn't interpret that selection. Pick a number from the latest list, or say \"add <name> to my itinerary\"."

AnotherCuisineReply ==
    "No problem. Is there another cuisine you'd like to try instead (e.g., Lebanese, Italian, Thai)?"

ConfirmExpandReply ==
    "Just to confirm -- should I search nearby concourses for more options? (Yes/No)"

KnownConcourses == {"Concourse B", "Concourse A", "Concourse C", "Concourse D", "Concourse E"}

AskExpandReply(cuisine, concourse_name) ==
    "I couldn't find any " \o Title(cuisine) \o " options near " \o concourse_name \o ". "
      \o "Would you like me to search "
      \o (IF concourse_name \in KnownConcourses THEN "nearby concourses (A, C, D, E)"
          ELSE "other concourses")
      \o " for more choices?"

NoQuestionReply == "No question provided."

\* first sentences of the two system prompts (src/app.py 483-490, 539-548)
ExpandPrompt == "List 3-5 options for the requested CUISINE anywhere in the airport."
DefaultPrompt == "You are a helpful airport assistant."

Msg(role, content) == [role |-> role, content |-> content]

(***************************************************************************)
(* What a request handler did, next to the session it leaves: the HTTP     *)
(* outcome, the branch taken, the reply, the chat-model calls and the      *)
(* retrieval calls made.                                                   *)
(***************************************************************************)
Outcome(sess, status, branch, reply, q, gate, calls, searches) ==
    [session |-> sess, status |-> status, branch |-> branch, reply |-> reply,
     q |-> q, gate |-> gate, model_calls |-> calls, searches |-> searches]

\* x or y or z of Python, on strings
Or3(x, y, z) == IF x # "" THEN x ELSE IF y # "" THEN y ELSE z

\* a faulty last step that returns the reply without logging it
RepliedUnlogged(s, branch, reply, question, gate) ==
    Outcome(s, "ok", branch, reply, question, gate, 0, <<>>)

\* a handler's last step: the reply is appended to the history and returned
Replied(s, branch, reply, question, gate) ==
    Outcome(Put(s, "history", Append(s["history"], Msg("assistant", reply))),
            "ok", branch, reply, question, gate, 0, <<>>)

\* the fields of the first recommendation whose name is the place, blank when none
RecoFieldsFor(recos, place) ==
    With({k \in 1..Len(recos) : Lower(Strip(recos[k].name)) = Lower(place)}, LAMBDA hits :
    IF hits = {} THEN [desc |-> "", walk |-> "", conc |-> ""]
    ELSE With(CHOOSE k \in hits : \A j \in hits : k <= j, LAMBDA k :
             [desc |-> recos[k].desc, walk |-> recos[k].walk, conc |-> recos[k].conc]))

\* a faulty explicit-add branch that closes a pending cuisine negotiation
ask_add_closing(s2, question, gate, m) ==
    Replied(Pop(Pop(add_to_itinerary(s2, m.cat, m.place, "", "", "", "", PyNone, <<>>),
                    "pending_cuisine"), "awaiting_cuisine_expand"),
            "add", <<AddedReply(m.place, m.cat)>>, question, gate)

\* a faulty explicit-add branch that files the place under the session's
\* current category
ask_add_current_category(s2, question, gate, m) ==
    With(Get(s2, "current_category", "Dining"), LAMBDA cc :
    Replied(add_to_itinerary(s2, cc, m.place, "", "", "", "", PyNone, <<>>),
            "add", <<AddedReply(m.place, cc)>>, question, gate))

\* the explicit-add branch (src/app.py 397-430)
ask_add(s2, question, gate, m) ==
    With(BestMatch[<<m.place, gate>>], LAMBDA matched :
    With(IF Len(matched) > 0
         THEN add_to_itinerary(s2, m.cat, matched[1].name, matched[1].description,
                               matched[1].concourse, "within 5 min walk", matched[1].image,
                               matched[1].id, matched[1].location_ids)
         ELSE With(RecoFieldsFor(parse_recos_from_html(LastAssistant(s2["history"])), m.place),
                   LAMBDA hit :
                      add_to_itinerary(s2, m.cat, m.place, hit.desc, hit.conc, hit.walk, "",
                                       PyNone, <<>>)), LAMBDA s3 :
    Replied(s3, "add", HtmlTokens(AddedReply(m.place, m.cat)), question, gate)))

\* the in-range numeric selection (src/app.py 442-464): entry r of the latest list
\* is resolved against the catalog and saved under the current category cc
select_reco(s2, r, cc, question, gate) ==
    With(BestMatch[<<r.name, gate>>], LAMBDA match_obj :
    With(IF Len(match_obj) > 0
         THEN add_to_itinerary(s2, cc, match_obj[1].name, match_obj[1].description,
                               match_obj[1].concourse,
                               IF r.walk # "" THEN r.walk ELSE "within 5 min walk",
                               match_obj[1].image, match_obj[1].id,
                               match_obj[1].location_ids)
         ELSE add_to_itinerary(s2, cc, r.name, r.desc, r.conc, r.walk, "", PyNone, <<>>),
         LAMBDA s3 :
    Replied(s3, "select", <<AddedReply(r.name, cc)>>, question, gate)))

\* a faulty numeric branch that counts the list from zero
ask_number_zero_based(s2, question, gate) ==
    With(ToInt(question), LAMBDA choice_num :
    With(parse_recos_from_html(LastAssistant(s2["history"])), LAMBDA matches_html :
    IF 0 <= choice_num /\ choice_num < Len(matches_html)
    THEN select_reco(s2, matches_html[choice_num + 1], Get(s2, "current_category", "Dining"),
                     question, gate)
    ELSE Replied(s2, "nudge", <<Nudger>>, question, gate)))

\* the numeric-selection branch (src/app.py 433-469)
ask_number(s2, question, gate) ==
    With(ToInt(question), LAMBDA choice_num :
    With(parse_recos_from_html(LastAssistant(s2["history"])), LAMBDA matches_html :
    IF Len(matches_html) > 0 /\ 1 <= choice_num /\ choice_num <= Len(matches_html)
    THEN select_reco(s2, matches_html[choice_num], Get(s2, "current_category", "Dining"),
                     question, gate)
    ELSE Replied(s2, "nudge", <<Nudger>>, question, gate)))

\* a faulty recommendation step that answers with an apology when a call fails
ask_model_recovering(s, question, gate, branch, search, model_out, saved, sess0) ==
    IF model_out.search_ok /\ model_out.ok
    THEN Outcome(Put(s, "history", Append(s["history"], Msg("assistant", model_out.content))),
                 "ok", branch, model_out.content, question, gate, 1, <<search>>)
    ELSE Outcome(Put(s, "history", Append(s["history"], Msg("assistant", <<"Sorry, try again.">>))),
                 "ok", branch, <<"Sorry, try again.">>, question, gate,
                 IF model_out.search_ok THEN 1 ELSE 0, <<search>>)

\* the retrieval and the chat-model call of a recommendation (src/app.py
\* 482-507, 538-569): the reply is appended and returned, or one of the two
\* calls raises; model_out tells which, saved whether the server's error path
\* keeps the session written so far
ask_model(s, question, gate, branch, search, model_out, saved, sess0) ==
    IF ~model_out.search_ok
    THEN Outcome(IF saved THEN s ELSE sess0,
                 "error", branch, <<>>, question, gate, 0, <<search>>)
    ELSE IF model_out.ok
    THEN Outcome(Put(s, "history", Append(s["history"], Msg("assistant", model_out.content))),
                 "ok", branch, model_out.content, question, gate, 1, <<search>>)
    ELSE Outcome(IF saved THEN s ELSE sess0,
                 "error", branch, <<>>, question, gate, 1, <<search>>)

\* faulty confirmations: one that asks the model whatever the answer is, one
\* that keeps the gate and takes the cuisine from the answer itself, one that
\* takes an unclear answer for a refusal, one that keeps the negotiation open
\* after a refusal
ask_expand_always_model(s2, F, gate, model_out, saved, sess0) ==
    ask_model(Pop(Pop(s2, "pending_cuisine"), "awaiting_cuisine_expand"), F.question, gate,
              IF F.yes THEN "expand_yes" ELSE IF F.no THEN "expand_no" ELSE "expand_unclear",
              [gate |-> "", cuisine |-> Get(s2, "pending_cuisine", ""), prompt |-> ExpandPrompt],
              model_out, saved, sess0)

ask_expand_local(s2, F, gate, model_out, saved, sess0) ==
    IF F.yes
    THEN ask_model(Pop(Pop(s2, "pending_cuisine"), "awaiting_cuisine_expand"),
                   F.question, gate, "expand_yes",
                   [gate |-> gate, cuisine |-> F.cuisine, prompt |-> ExpandPrompt],
                   model_out, saved, sess0)
    ELSE IF F.no
    THEN Replied(Pop(Pop(s2, "pending_cuisine"), "awaiting_cuisine_expand"),
                 "expand_no", <<AnotherCuisineReply>>, F.question, gate)
    ELSE Replied(s2, "expand_unclear", <<ConfirmExpandReply>>, F.question, gate)

ask_expand_unclear_refuses(s2, F, gate, model_out, saved, sess0) ==
    IF F.yes
    THEN ask_model(Pop(Pop(s2, "pending_cuisine"), "awaiting_cuisine_expand"),
                   F.question, gate, "expand_yes",
                   [gate |-> "", cuisine |-> Get(s2, "pending_cuisine", ""),
                    prompt |-> ExpandPrompt],
                   model_out, saved, sess0)
    ELSE Replied(Pop(Pop(s2, "pending_cuisine"), "awaiting_cuisine_expand"),
                 IF F.no THEN "expand_no" ELSE "expand_unclear",
                 <<AnotherCuisineReply>>, F.question, gate)

ask_expand_refusal_kept(s2, F, gate, model_out, saved, sess0) ==
    IF F.yes
    THEN ask_model(Pop(Pop(s2, "pending_cuisine"), "awaiting_cuisine_expand"),
                   F.question, gate, "expand_yes",
                   [gate |-> "", cuisine |-> Get(s2, "pending_cuisine", ""),
                    prompt |-> ExpandPrompt],
                   model_out, saved, sess0)
    ELSE IF F.no
    THEN Replied(s2, "expand_no", <<AnotherCuisineReply>>, F.question, gate)
    ELSE Replied(s2, "expand_unclear", <<ConfirmExpandReply>>, F.question, gate)

\* a refusal that clears the flag and keeps the cuisine
ask_expand_flag_only(s2, F, gate, model_out, saved, sess0) ==
    IF F.yes
    THEN ask_model(Pop(Pop(s2, "pending_cuisine"), "awaiting_cuisine_expand"),
                   F.question, gate, "expand_yes",
                   [gate |-> "", cuisine |-> Get(s2, "pending_cuisine", ""),
                    prompt |-> ExpandPrompt],
                   model_out, saved, sess0)
    ELSE IF F.no
    THEN Replied(Pop(s2, "awaiting_cuisine_expand"),
                 "expand_no", <<AnotherCuisineReply>>, F.question, gate)
    ELSE Replied(s2, "expand_unclear", <<ConfirmExpandReply>>, F.question, gate)

\* the pending cuisine-expansion confirmation (src/app.py 478-519)
ask_expand(s2, F, gate, model_out, saved, sess0) ==
    IF F.yes
    THEN ask_model(Pop(Pop(s2, "pending_cuisine"), "awaiting_cuisine_expand"),
                   F.question, gate, "expand_yes",
                   [gate |-> "", cuisine |-> Get(s2, "pending_cuisine", ""),
                    prompt |-> ExpandPrompt],
                   model_out, saved, sess0)
    ELSE IF F.no
    THEN Replied(Pop(Pop(s2, "pending_cuisine"), "awaiting_cuisine_expand"),
                 "expand_no", <<AnotherCuisineReply>>, F.question, gate)
    ELSE Replied(s2, "expand_unclear", <<ConfirmExpandReply>>, F.question, gate)

\* a faulty cuisine-aware part that never checks the concourse
ask_cuisine_unchecked(s2, F, gate, model_out, saved, sess0) ==
    IF Get(s2, "awaiting_cuisine_expand", FALSE)
    THEN ask_expand(s2, F, gate, model_out, saved, sess0)
    ELSE ask_model(s2, F.question, gate, "default",
                   [gate |-> gate, cuisine |-> F.cuisine, prompt |-> DefaultPrompt],
                   model_out, saved, sess0)

\* the cuisine-aware part of /ask (src/app.py 471-569)
ask_cuisine(s2, F, gate, model_out, saved, sess0) ==
    With(infer_concourse_from_gate(gate), LAMBDA concourse_name :
    With(F.cuisine, LAMBDA cuisine :
    IF Get(s2, "awaiting_cuisine_expand", FALSE)
    THEN ask_expand(s2, F, gate, model_out, saved, sess0)
    ELSE IF cuisine # "" /\ ~CuisineExists[<<cuisine, concourse_name>>]
    THEN Replied(Put(Put(s2, "pending_cuisine", cuisine), "awaiting_cuisine_expand", TRUE),
                 "ask_expand", <<AskExpandReply(cuisine, concourse_name)>>, F.question, gate)
    ELSE ask_model(s2, F.question, gate, "default",
                   [gate |-> gate, cuisine |-> cuisine, prompt |-> DefaultPrompt],
                   model_out, saved, sess0)))

\* a faulty /ask that logs the user's message before it looks at the question
ask_logging_first(sess0, data_question, data_gate, rgate, model_out, saved) ==
    With(IF Has(sess0, "history") THEN sess0 ELSE Put(sess0, "history", <<>>), LAMBDA s0 :
    With(QuestionFacts[data_question], LAMBDA F :
    With(Put(s0, "current_category", detect_category_from_text(F, s0)), LAMBDA s1 :
    With(Upper(Strip(Or3(data_gate, Get(s1, "gate", ""), rgate))), LAMBDA gate :
    With(Put(s1, "history", Append(s1["history"], Msg("user", <<F.question>>))), LAMBDA s2 :
    IF F.question = ""
    THEN Outcome(s2, "bad_request", "blank", <<NoQuestionReply>>, F.question, "", 0, <<>>)
    ELSE IF F.m_add.matched THEN ask_add(s2, F.question, gate, F.m_add)
    ELSE IF F.digits THEN ask_number(s2, F.question, gate)
    ELSE ask_cuisine(s2, F, gate, model_out, saved, sess0))))))

\* POST /ask (src/app.py 369-569).  data_question and data_gate are the
\* request's fields, rgate the gate random_gate() would draw, model_out and
\* saved the outcome of a chat-model call.
ask(sess0, data_question, data_gate, rgate, model_out, saved) ==
    With(IF Has(sess0, "history") THEN sess0 ELSE Put(sess0, "history", <<>>), LAMBDA s0 :
    With(QuestionFacts[data_question], LAMBDA F :
    IF F.question = ""
    THEN Outcome(s0, "bad_request", "blank", <<NoQuestionReply>>, F.question, "", 0, <<>>)
    ELSE
    With(Put(s0, "current_category", detect_category_from_text(F, s0)), LAMBDA s1 :
    With(Upper(Strip(Or3(data_gate, Get(s1, "gate", ""), rgate))), LAMBDA gate :
    With(Put(s1, "history", Append(s1["history"], Msg("user", <<F.question>>))), LAMBDA s2 :
    IF F.m_add.matched THEN ask_add(s2, F.question, gate, F.m_add)
    ELSE IF F.digits THEN ask_number(s2, F.question, gate)
    ELSE ask_cuisine(s2, F, gate, model_out, saved, sess0))))))

(***************************************************************************)
(* GET/POST / (src/app.py 308-367).                                        *)
(***************************************************************************)
RECURSIVE NatStr(_)
NatStr(n) == IF n < 10 THEN Ch(DigitChars, n + 1)
             ELSE NatStr(n \div 10) \o Ch(DigitChars, (n % 10) + 1)

\* the modelled draws of random.randint(4, 12)
HourDraws == {4}

random_hours_4_to_12 == {NatStr(h) \o " hours" : h \in HourDraws}

Or2(x, y) == IF x # "" THEN x ELSE y

\* POST /: the scanner's form starts a fresh session
chat_post(form_name, form_flight, form_gate, form_time, rgate, rhours) ==
    [history |-> <<>>,
     passenger_name |-> Or2(Strip(form_name), "Passenger"),
     flight_number |-> Or2(Strip(form_flight), "Unknown"),
     gate |-> Or2(Upper(Strip(form_gate)), rgate),
     time |-> Strip(form_time),
     time_to_flight |-> rhours,
     just_scanned |-> TRUE]

Greeting(sess, rgate, rhours) ==
    "Hi " \o Upper(Or2(Get(sess, "passenger_name", ""), "Passenger"))
      \o ", your next flight " \o Or2(Get(sess, "flight_number", ""), "Unknown")
      \o " to London (LHR) departs in " \o Or2(Get(sess, "time_to_flight", ""), rhours)
      \o " from Gate " \o Or2(Get(sess, "gate", ""), rgate)
      \o ". What would you like to do while you're here?"

\* GET /: the first page load after a scan injects the greeting
chat_get(sess, rgate, rhours) ==
    LET s0 == IF Has(sess, "history") THEN sess ELSE Put(sess, "history", <<>>)
        s1 == Pop(s0, "just_scanned")
        s2 == IF Get(s0, "just_scanned", FALSE)
              THEN Put(Put(s1, "history",
                           Append(s1["history"], Msg("assistant", <<Greeting(s1, rgate, rhours)>>))),
                       "show_first_options", TRUE)
              ELSE s1
    IN Pop(s2, "show_first_options")

(***************************************************************************)
(* GET /itinerary, POST /delete_itinerary/<category>/<index>, GET /reset   *)
(* (src/app.py 575-592).                                                   *)
(***************************************************************************)
itinerary(sess) == init_itinerary(sess)

\* del list[index]
DelAt(seq, index) == SubSeq(seq, 1, index) \o SubSeq(seq, index + 2, Len(seq))

\* a faulty remove that counts the bucket from one
delete_itinerary_one_based(sess, category, index) ==
    LET s1 == init_itinerary(sess)
        itin == s1["itinerary"]
    IN IF category \in DOMAIN itin /\ 1 <= index /\ index <= Len(itin[category])
       THEN Put(s1, "itinerary", Put(itin, category, DelAt(itin[category], index - 1)))
       ELSE s1

delete_itinerary(sess, category, index) ==
    LET s1 == init_itinerary(sess)
        itin == s1["itinerary"]
    IN IF category \in DOMAIN itin /\ 0 <= index /\ index < Len(itin[category])
       THEN Put(s1, "itinerary", Put(itin, category, DelAt(itin[category], index)))
       ELSE s1

reset(sess) == EmptyDict

DeleteCategories == {"Dining", "dining"}
MaxDeleteIndex == 1

(***************************************************************************)
(* The state machine: one action per request handler.  last records what   *)
(* the latest request was and what its handler did.                        *)
(***************************************************************************)
HistoryLen(sess) == Len(Get(sess, "history", <<>>))

Seen(op, o) ==
    [op |-> op, status |-> o.status, branch |-> o.branch, reply |-> o.reply, q |-> o.q,
     gate |-> o.gate, model_calls |-> o.model_calls, searches |-> o.searches]

Plain(op) ==
    [op |-> op, status |-> "ok", branch |-> "", reply |-> <<>>, q |-> "",
     gate |-> "", model_calls |-> 0, searches |-> <<>>]

\* a /delete_itinerary request, with the category and the index of its URL
Deleted(category, index) ==
    [op |-> "delete", status |-> "ok", branch |-> "", reply |-> <<>>, q |-> "",
     gate |-> "", model_calls |-> 0, searches |-> <<>>,
     category |-> category, index |-> index]

\* the module-level stores every request reads
Startup == [embedded_chunks |-> embedded_chunks, CATALOG_ALL |-> CATALOG_ALL]

Init ==
    /\ session = EmptyDict
    /\ last = Plain("init")
    /\ peer = EmptyDict
    /\ store = Startup

\* random_gate() is drawn only when neither the request nor the session
\* names a gate, and the chat model's outcome only when the turn calls it
GateDrawsFor(sess, data_gate) ==
    IF Or2(data_gate, Get(sess, "gate", "")) # "" THEN {""} ELSE random_gate

\* the outcomes of one /ask request: the external calls' outcomes matter only
\* to a turn that makes one
AskOutcomes(sess, q, g, rg) ==
    With(ask(sess, q, g, rg, [search_ok |-> FALSE, ok |-> FALSE, content |-> <<>>], FALSE),
         LAMBDA o :
            IF o.searches = <<>> THEN {o}
            ELSE {ask(sess, q, g, rg, mo, saved) : mo \in ModelOutcomes, saved \in BOOLEAN})

Ask ==
    /\ HistoryLen(session) + 2 <= MaxHistory
    /\ \E q \in Questions, g \in RequestGates :
       \E rg \in GateDrawsFor(session, g) :
       \E o \in AskOutcomes(session, q, g, rg) :
          /\ session' = o.session
          /\ last' = Seen("ask", o)
          /\ UNCHANGED <<peer, store>>

ChatPost ==
    \E n \in ScanNames, f \in ScanFlights, g \in ScanGates, t \in ScanTimes,
       rg \in random_gate, rh \in random_hours_4_to_12 :
        /\ session' = chat_post(n, f, g, t, rg, rh)
        /\ last' = Plain("scan")
        /\ UNCHANGED <<peer, store>>

ChatGet ==
    /\ HistoryLen(session) + 1 <= MaxHistory
    /\ \E rg \in random_gate, rh \in random_hours_4_to_12 :
        /\ session' = chat_get(session, rg, rh)
        /\ last' = Plain("page")
        /\ UNCHANGED <<peer, store>>

Itinerary ==
    /\ session' = itinerary(session)
    /\ last' = Plain("itinerary")
    /\ UNCHANGED <<peer, store>>

DeleteItinerary ==
    \E c \in DeleteCategories, i \in 0..MaxDeleteIndex :
        /\ session' = delete_itinerary(session, c, i)
        /\ last' = Deleted(c, i)
        /\ UNCHANGED <<peer, store>>

Reset ==
    /\ session' = reset(session)
    /\ last' = Plain("reset")
    /\ UNCHANGED <<peer, store>>

Next == Ask \/ ChatPost \/ ChatGet \/ Itinerary \/ DeleteItinerary \/ Reset

Spec == Init /\ [][Next]_vars

(***************************************************************************)
(* Two clients.  Flask's session is a request-local proxy of the           *)
(* requesting client's own signed cookie: a handler reads and writes the   *)
(* session of the client whose request it serves.  The requests of the two *)
(* clients interleave in any order; the handlers are the ones above.       *)
(***************************************************************************)
Clients == {1, 2}

IsoMaxHistory == 2

IsoQuestions == {"thai", "add Curry House to my dining itinerary", "2"}

SessionOf(c) == IF c = 1 THEN session ELSE peer

\* one client's session bound to every client
SaveSessionShared(c, new) ==
    /\ session' = new
    /\ peer' = new
    /\ store' = store

\* the response stores the session in the requesting client's cookie; no
\* handler assigns or mutates embedded_chunks or the catalog index
SaveSession(c, new) ==
    /\ session' = (IF c = 1 THEN new ELSE session)
    /\ peer' = (IF c = 2 THEN new ELSE peer)
    /\ store' = store

ByClient(op, c) == [op |-> op, client |-> c]

AskBy(c) ==
    /\ HistoryLen(SessionOf(c)) + 2 <= IsoMaxHistory
    /\ \E q \in IsoQuestions, g \in RequestGates :
       \E rg \in GateDrawsFor(SessionOf(c), g) :
       \E o \in AskOutcomes(SessionOf(c), q, g, rg) :
          /\ SaveSession(c, o.session)
          /\ last' = ByClient("ask", c)

ChatPostBy(c) ==
    \E n \in ScanNames, f \in ScanFlights, g \in ScanGates, t \in ScanTimes,
       rg \in random_gate, rh \in random_hours_4_to_12 :
        /\ SaveSession(c, chat_post(n, f, g, t, rg, rh))
        /\ last' = ByClient("scan", c)

ChatGetBy(c) ==
    /\ HistoryLen(SessionOf(c)) + 1 <= IsoMaxHistory
    /\ \E rg \in random_gate, rh \in random_hours_4_to_12 :
        /\ SaveSession(c, chat_get(SessionOf(c), rg, rh))
        /\ last' = ByClient("page", c)

ItineraryBy(c) ==
    /\ SaveSession(c, itinerary(SessionOf(c)))
    /\ last' = ByClient("itinerary", c)

DeleteItineraryBy(c) ==
    \E cat \in DeleteCategories, i \in 0..MaxDeleteIndex :
        /\ SaveSession(c, delete_itinerary(SessionOf(c), cat, i))
        /\ last' = ByClient("delete", c)

ResetBy(c) ==
    /\ SaveSession(c, reset(SessionOf(c)))
    /\ last' = ByClient("reset", c)

InitClients ==
    /\ session = EmptyDict
    /\ peer = EmptyDict
    /\ store = Startup
    /\ last = ByClient("init", 1)

NextClients ==
    \E c \in Clients :
        \/ AskBy(c)
        \/ ChatPostBy(c)
        \/ ChatGetBy(c)
        \/ ItineraryBy(c)
        \/ DeleteItineraryBy(c)
        \/ ResetBy(c)

SpecClients == InitClients /\ [][NextClients]_vars

(***************************************************************************)
(* The same session with the questions of SelectionQuestions.              *)
(***************************************************************************)
AskSelection ==
    /\ HistoryLen(session) + 2 <= MaxHistory
    /\ \E q \in SelectionQuestions, g \in RequestGates :
       \E rg \in GateDrawsFor(session, g) :
       \E o \in AskOutcomes(session, q, g, rg) :
          /\ session' = o.session
          /\ last' = Seen("ask", o)
          /\ UNCHANGED <<peer, store>>

NextSelection == AskSelection \/ ChatPost \/ ChatGet \/ Itinerary \/ DeleteItinerary \/ Reset

SpecSelection == Init /\ [][NextSelection]_vars

(***************************************************************************)
(* The properties.  A step with last'.op = "ask" is one /ask request:       *)
(* session is the session it found, session' the one it left, last' what   *)
(* it did.                                                                 *)
(***************************************************************************)
Awaiting(sess) == Get(sess, "awaiting_cuisine_expand", FALSE)

\* key k is untouched between two sessions
SameKey(a, b, k) == (Has(a, k) <=> Has(b, k)) /\ (Has(a, k) => a[k] = b[k])

\* neither negotiation key is left in the session
NegotiationClosed(sess) ==
    ~Has(sess, "pending_cuisine") /\ ~Has(sess, "awaiting_cuisine_expand")

\* an /ask request with a non-blank question
AskTurn == last'.op = "ask" /\ last'.status # "bad_request"

\* the branches the priority order allows for a question, given the session
\* the turn found and the gate it worked with
BranchesInOrder(sess, F, gate) ==
    IF F.m_add.matched THEN {"add"}
    ELSE IF F.digits THEN {"select", "nudge"}
    ELSE IF Awaiting(sess) THEN {"expand_yes", "expand_no", "expand_unclear"}
    ELSE IF F.cuisine # "" /\ ~CuisineExists[<<F.cuisine, infer_concourse_from_gate(gate)>>]
    THEN {"ask_expand"}
    ELSE {"default"}

\* C1: an /ask turn takes the first branch that matches in the order explicit
\* add, numeric selection, pending confirmation, unavailable cuisine, default;
\* an explicit add or a purely numeric message sent while a confirmation is
\* pending is handled as an add or a selection and leaves pending_cuisine and
\* awaiting_cuisine_expand as they were.
C1_BranchPriority ==
    [][AskTurn =>
        LET F == QuestionFacts[last'.q] IN
        /\ last'.branch \in BranchesInOrder(session, F, last'.gate)
        /\ (Awaiting(session) /\ (F.m_add.matched \/ F.digits)) =>
              /\ last'.branch \in {"add", "select", "nudge"}
              /\ SameKey(session, session', "pending_cuisine")
              /\ SameKey(session, session', "awaiting_cuisine_expand")]_vars

\* an explicit add was handled while a confirmation was, and still is, pending
C1_AddWhilePending ==
    /\ last.op = "ask" /\ last.branch = "add"
    /\ Awaiting(session) /\ Get(session, "pending_cuisine", "") = "thai"

\* C2: every /ask turn with a non-blank question that returns a reply appends
\* the user's message and then exactly one assistant message to the history;
\* the returned text is the content of the last history entry.
C2_HistoryGrowsByTwo ==
    [][(AskTurn /\ last'.status = "ok") =>
        /\ Has(session', "history")
        /\ session'["history"] =
              Get(session, "history", <<>>)
                \o <<Msg("user", <<last'.q>>), Msg("assistant", last'.reply)>>]_vars

\* a model reply was logged as the fourth entry of the history
C2_ModelReplyLogged ==
    /\ last.op = "ask" /\ last.status = "ok" /\ last.branch = "default"
    /\ last.reply = RecoList3
    /\ Len(Get(session, "history", <<>>)) = 4

\* C3: the chat model is called at most once per /ask turn, and only in the
\* affirmative confirmation branch and in the default path.
C3_ModelCalledOnlyToRecommend ==
    last.op = "ask" =>
        /\ last.model_calls <= 1
        /\ last.model_calls > 0 => last.branch \in {"expand_yes", "default"}
        /\ last.branch \in {"blank", "add", "select", "nudge", "expand_no",
                            "expand_unclear", "ask_expand"} => last.model_calls = 0

\* the affirmative confirmation branch called the model once
C3_ExpandCalledModel ==
    last.op = "ask" /\ last.branch = "expand_yes" /\ last.model_calls = 1

\* the chunks' texts, lowercased
LoweredChunks == Tabulated([k \in 1..Len(embedded_chunks) |-> Lower(embedded_chunks[k])])

\* no chunk's lowercased text holds both the cuisine and the concourse label
NoChunkHasBoth(cuisine, concourse) ==
    \A k \in DOMAIN LoweredChunks :
        ~(/\ Contains(LoweredChunks[k], Lower(cuisine))
          /\ Contains(LoweredChunks[k], Lower(concourse)))

\* the turn opened a negotiation about cuisine c near the given concourse
OpensNegotiation(c, concourse) ==
    /\ last'.status = "ok" /\ last'.branch = "ask_expand"
    /\ last'.model_calls = 0
    /\ last'.reply = <<AskExpandReply(c, concourse)>>
    /\ Get(session', "pending_cuisine", "") = c
    /\ Awaiting(session')

\* C4 as stated: any vocabulary cuisine the message contains, when no chunk
\* has it together with the gate's concourse, opens the negotiation about it.
C4_AnyContainedCuisine ==
    [][(AskTurn /\ ~Awaiting(session)
          /\ ~QuestionFacts[last'.q].m_add.matched /\ ~QuestionFacts[last'.q].digits) =>
        \A k \in 1..Len(CUISINES) :
           (/\ HasWord(Lower(last'.q), CUISINES[k])
            /\ NoChunkHasBoth(CUISINES[k], infer_concourse_from_gate(last'.gate)))
           => OpensNegotiation(CUISINES[k], infer_concourse_from_gate(last'.gate))]_vars

\* C4: with no confirmation pending, a message that is neither an explicit
\* add nor purely digits and whose detected cuisine (the first vocabulary term
\* it has as a whole word) is in no chunk together with the gate's concourse
\* sets pending_cuisine to it and awaiting_cuisine_expand, and replies with
\* the permission question without calling the model.
C4_DetectedCuisineUnavailable ==
    [][AskTurn =>
        LET F == QuestionFacts[last'.q]
            concourse_name == infer_concourse_from_gate(last'.gate)
        IN (/\ ~Awaiting(session) /\ ~F.m_add.matched /\ ~F.digits
            /\ F.cuisine # ""
            /\ NoChunkHasBoth(F.cuisine, concourse_name))
           => OpensNegotiation(F.cuisine, concourse_name)]_vars

\* "indian or thai" opened a negotiation about indian, the first term in the
\* vocabulary's order
C4_FirstTermPending ==
    /\ last.op = "ask" /\ last.branch = "ask_expand" /\ last.q = "indian or thai"
    /\ Get(session, "pending_cuisine", "") = "indian" /\ Awaiting(session)

\* C5 as stated: whenever a confirmation is pending and the message is
\* affirmative, the turn retrieves with the pending cuisine and an empty gate,
\* and a turn that replies has asked the model and closed the negotiation.
C5_AnyAffirmative ==
    [][(AskTurn /\ Awaiting(session) /\ QuestionFacts[last'.q].yes) =>
        /\ last'.branch = "expand_yes"
        /\ last'.searches = <<[gate |-> "", cuisine |-> Get(session, "pending_cuisine", ""),
                               prompt |-> ExpandPrompt]>>
        /\ last'.status = "ok" => (last'.model_calls = 1 /\ NegotiationClosed(session'))]_vars

\* C5: when a confirmation is pending and the message is affirmative and is
\* neither an explicit add nor purely digits, the turn runs the retrieval with
\* the pending cuisine (not the message's) and an empty gate and, once the
\* retrieval has returned, asks the model for a list, once; a turn that
\* replies has cleared pending_cuisine and awaiting_cuisine_expand, and one
\* whose retrieval or model call fails leaves the session either as it found
\* it or with both cleared.
C5_AffirmativeExpands ==
    [][AskTurn =>
        LET F == QuestionFacts[last'.q] IN
        (Awaiting(session) /\ F.yes /\ ~F.m_add.matched /\ ~F.digits) =>
            /\ last'.branch = "expand_yes"
            /\ last'.searches = <<[gate |-> "", cuisine |-> Get(session, "pending_cuisine", ""),
                                   prompt |-> ExpandPrompt]>>
            /\ last'.model_calls <= 1
            /\ last'.status = "ok" => (last'.model_calls = 1 /\ NegotiationClosed(session'))
            /\ last'.status # "ok" => (session' = session \/ NegotiationClosed(session'))]_vars

\* "yes" to a pending thai negotiation: retrieval for thai at no gate, reply
\* logged, negotiation closed
C5_YesSearchedPending ==
    /\ last.op = "ask" /\ last.branch = "expand_yes" /\ last.status = "ok" /\ last.q = "yes"
    /\ last.model_calls = 1
    /\ last.searches = <<[gate |-> "", cuisine |-> "thai", prompt |-> ExpandPrompt]>>
    /\ NegotiationClosed(session)

\* the turn asked the yes/no confirmation again and kept the negotiation
ReasksConfirmation ==
    /\ last'.status = "ok" /\ last'.branch = "expand_unclear"
    /\ last'.reply = <<ConfirmExpandReply>>
    /\ last'.model_calls = 0
    /\ SameKey(session, session', "pending_cuisine")
    /\ SameKey(session, session', "awaiting_cuisine_expand")

\* C6 as stated: whenever a confirmation is pending and the message is neither
\* affirmative nor negative, the turn re-asks the confirmation and keeps the
\* negotiation.
C6_AnyUnclear ==
    [][(AskTurn /\ Awaiting(session)
          /\ ~QuestionFacts[last'.q].yes /\ ~QuestionFacts[last'.q].no)
        => ReasksConfirmation]_vars

\* C6: when a confirmation is pending and the message is neither affirmative
\* nor negative and is not purely digits, the turn re-asks the fixed yes/no
\* confirmation and leaves pending_cuisine and awaiting_cuisine_expand as they
\* were, also when the message names another cuisine.
C6_UnclearReasks ==
    [][AskTurn =>
        LET F == QuestionFacts[last'.q] IN
        (Awaiting(session) /\ ~F.yes /\ ~F.no /\ ~F.m_add.matched /\ ~F.digits)
           => ReasksConfirmation]_vars

\* "thai" sent while a negotiation about indian was pending: re-asked, indian
\* still pending
C6_OtherCuisineKeptPending ==
    /\ last.op = "ask" /\ last.branch = "expand_unclear" /\ last.q = "thai"
    /\ last.reply = <<ConfirmExpandReply>>
    /\ Get(session, "pending_cuisine", "") = "indian" /\ Awaiting(session)

\* C7: when a confirmation is pending and the message is negative and not
\* affirmative, the turn clears pending_cuisine and awaiting_cuisine_expand and
\* replies asking for another cuisine, without calling the model.
C7_NegativeCloses ==
    [][AskTurn =>
        LET F == QuestionFacts[last'.q] IN
        (Awaiting(session) /\ F.no /\ ~F.yes) =>
            /\ last'.status = "ok" /\ last'.branch = "expand_no"
            /\ last'.reply = <<AnotherCuisineReply>>
            /\ last'.model_calls = 0
            /\ NegotiationClosed(session')]_vars

\* "no" closed a negotiation: the alternative-cuisine reply is the last entry
\* of a four-entry history and neither key is left
C7_NoClosedNegotiation ==
    /\ last.op = "ask" /\ last.branch = "expand_no" /\ last.q = "no"
    /\ Len(Get(session, "history", <<>>)) = 4
    /\ session["history"][2].content = <<AskExpandReply("thai", "Concourse B")>>
    /\ NegotiationClosed(session)

\* bucket cat of the session's itinerary, empty when there is none
Bucket(sess, cat) ==
    IF Has(sess, "itinerary") /\ cat \in DOMAIN sess["itinerary"]
    THEN sess["itinerary"][cat] ELSE <<>>

\* the bucket holds recommendation r as the selection branch resolves it:
\* under the catalog item's name and id when the catalog knows the place at
\* the gate, else as the list gave it
HoldsReco(bucket, r, gate) ==
    LET match_obj == BestMatch[<<r.name, gate>>] IN
    \E k \in 1..Len(bucket) :
        IF Len(match_obj) > 0
        THEN /\ bucket[k].name = match_obj[1].name
             /\ bucket[k].id = match_obj[1].id
        ELSE /\ bucket[k].name = r.name /\ bucket[k].id = PyNone
             /\ bucket[k].description = r.desc
             /\ bucket[k].concourse = r.conc
             /\ bucket[k].walk_time = r.walk

\* C8: for a purely numeric message n and the latest assistant message parsed
\* as a list of m entries: if 1 <= n <= m the turn saves the n-th entry into
\* the bucket of the session's current category and confirms it; otherwise it
\* replies with the clarification nudge, without an error, and leaves the
\* itinerary as it was.
C8_NumericSelection ==
    [][(AskTurn /\ QuestionFacts[last'.q].digits) =>
        LET n == ToInt(last'.q)
            recos == parse_recos_from_html(LastAssistant(Get(session, "history", <<>>)))
            cc == Get(session, "current_category", "Dining")
        IN /\ last'.status = "ok"
           /\ IF 1 <= n /\ n <= Len(recos)
              THEN /\ last'.branch = "select"
                   /\ last'.reply = <<AddedReply(recos[n].name, cc)>>
                   /\ HoldsReco(Bucket(session', cc), recos[n], last'.gate)
              ELSE /\ last'.branch = "nudge"
                   /\ last'.reply = <<Nudger>>
                   /\ SameKey(session, session', "itinerary")]_vars

\* "2" against the three-entry list, sent after a shopping question: Curry
\* House, the second entry, is in the Shopping bucket
C8_SecondEntrySaved ==
    /\ last.op = "ask" /\ last.branch = "select" /\ last.q = "2"
    /\ Get(session, "current_category", "") = "Shopping"
    /\ session["history"][2].content = RecoList3
    /\ \E k \in 1..Len(Bucket(session, "Shopping")) :
          Bucket(session, "Shopping")[k].name = "Curry House"

\* C9 as stated: every reachable session holds an itinerary with exactly the
\* three categories.
C9_ItineraryAlwaysPresent ==
    Has(session, "itinerary") /\ DOMAIN session["itinerary"] = Categories

\* C9: an itinerary the session holds has exactly the categories Dining,
\* Shopping and Relax; a new session and the session after a scan or a reset
\* hold none, and the handlers that read or write the itinerary (an add, a
\* selection, /itinerary, /delete_itinerary) leave one in the session.
C9_ThreeCategoriesOnceCreated ==
    /\ Has(session, "itinerary") => DOMAIN session["itinerary"] = Categories
    /\ last.op \in {"init", "scan", "reset"} => ~Has(session, "itinerary")
    /\ (\/ last.op \in {"itinerary", "delete"}
        \/ (last.op = "ask" /\ last.branch \in {"add", "select"}))
       => Has(session, "itinerary")

\* /delete_itinerary on a session without history created the three empty
\* buckets
C9_CreatedByReader ==
    /\ last.op = "delete" /\ ~Has(session, "history")
    /\ Has(session, "itinerary")
    /\ \A c \in Categories : session["itinerary"][c] = <<>>

\* no bucket holds two entries with the same lowercased name and the same id
NoDuplicates(sess) ==
    \A cat \in Categories :
        \A i, j \in 1..Len(Bucket(sess, cat)) :
            (/\ Lower(Bucket(sess, cat)[i].name) = Lower(Bucket(sess, cat)[j].name)
             /\ StrOf(Bucket(sess, cat)[i].id) = StrOf(Bucket(sess, cat)[j].id))
            => i = j

\* bucket b2 is b1, or b1 with one entry appended that matches none of b1 in
\* lowercased name and id
SameOrNewEntry(b1, b2) ==
    \/ b2 = b1
    \/ /\ Len(b2) = Len(b1) + 1
       /\ SubSeq(b2, 1, Len(b1)) = b1
       /\ \A k \in 1..Len(b1) :
             ~(/\ Lower(b1[k].name) = Lower(b2[Len(b2)].name)
               /\ StrOf(b1[k].id) = StrOf(b2[Len(b2)].id))

\* C10: an add leaves a bucket unchanged when the bucket already holds an
\* entry with the same lowercased name and the same id, and appends one entry
\* otherwise, so no bucket ever holds two entries with the same lowercased
\* name and the same id, whatever adds and removes came before.
C10_AddDeduplicates ==
    [][/\ NoDuplicates(session')
       /\ (last'.op = "ask" /\ last'.branch \in {"add", "select"}) =>
             \A cat \in Categories :
                SameOrNewEntry(Bucket(session, cat), Bucket(session', cat))]_vars

\* the same add command twice: Dining holds Curry House once
C10_AddedTwiceStoredOnce ==
    /\ last.op = "ask" /\ last.branch = "add"
    /\ Len(Get(session, "history", <<>>)) = 4
    /\ session["history"][1].content = <<"add Curry House to my dining itinerary">>
    /\ session["history"][3].content = <<"add Curry House to my dining itinerary">>
    /\ Len(Bucket(session, "Dining")) = 1

\* some keyword of the category occurs in the lowercased text
MentionsCategory(text, cat) == \E w \in CATEGORY_WORDS(cat) : Contains(Lower(text), w)

\* per trimmed question, the category its wording implies: Dining, Shopping,
\* Relax tried in that order, "" when no keyword occurs
ImpliedCategory ==
    Tabulated([q \in {Strip(x) : x \in Questions} |->
        IF MentionsCategory(q, "dining") THEN "Dining"
        ELSE IF MentionsCategory(q, "shopping") THEN "Shopping"
        ELSE IF MentionsCategory(q, "relax") THEN "Relax"
        ELSE ""])

\* the turn failed and the server dropped everything it had written
TurnDiscarded == last'.status = "error" /\ session' = session

\* C11: an /ask turn with a non-blank question leaves current_category set to
\* the category (Dining, Shopping, Relax, in that order) one of whose keywords
\* occurs in the lowercased message, and to the session's previous value,
\* "Dining" if there was none, when no keyword occurs; a purely numeric
\* message therefore never changes it.  (A failed turn whose session the
\* server does not store leaves the whole session as it was.)
C11_CurrentCategoryTracked ==
    [][AskTurn =>
        \/ TurnDiscarded
        \/ /\ Has(session', "current_category")
           /\ session'["current_category"] =
                 IF ImpliedCategory[last'.q] # "" THEN ImpliedCategory[last'.q]
                 ELSE Get(session, "current_category", "Dining")
           /\ QuestionFacts[last'.q].digits =>
                 session'["current_category"] = Get(session, "current_category", "Dining")]_vars

\* "thai" names no category: the Shopping set by the "shop" turn before it
\* is kept
C11_PreviousCategoryKept ==
    /\ last.op = "ask" /\ last.q = "thai"
    /\ Len(Get(session, "history", <<>>)) >= 3
    /\ session["history"][1].content = <<"shop">>
    /\ Get(session, "current_category", "") = "Shopping"

\* the add commands among the modelled questions, with the place and the
\* category each one names
AddCommands ==
    { [q |-> "add Curry House to my dining itinerary",
       place |-> "Curry House", cat |-> "Dining"],
      [q |-> "ADD noodle bar INTO MY Shopping ITINERARY",
       place |-> "noodle bar", cat |-> "Shopping"] }

\* the bucket holds the place as the add branch resolves it: the catalog
\* item the place resolves to at the gate, else the place as typed
HoldsPlace(bucket, place, gate) ==
    LET matched == BestMatch[<<place, gate>>] IN
    \E k \in 1..Len(bucket) :
        IF Len(matched) > 0
        THEN /\ Lower(bucket[k].name) = Lower(matched[1].name)
             /\ StrOf(bucket[k].id) = StrOf(matched[1].id)
        ELSE /\ Lower(bucket[k].name) = Lower(place)
             /\ StrOf(bucket[k].id) = StrOf(PyNone)

\* C12: an explicit add command, matched case-insensitively with "to" or
\* "into" and a category among dining, shopping, relax, saves the place it
\* names into the bucket of the title-cased category it names (not the
\* session's current category), changes no other bucket and replies with a
\* confirmation naming that place and category.
C12_ExplicitAdd ==
    [][AskTurn =>
        LET m == QuestionFacts[last'.q].m_add IN
        /\ m.matched <=> (\E c \in AddCommands : c.q = last'.q)
        /\ \A c \in AddCommands :
              c.q = last'.q => (m.place = c.place /\ Title(m.cat) = c.cat)
        /\ m.matched =>
              /\ last'.status = "ok" /\ last'.branch = "add"
              /\ last'.reply = <<AddedReply(m.place, Title(m.cat))>>
              /\ HoldsPlace(Bucket(session', Title(m.cat)), m.place, last'.gate)
              /\ \A cat \in Categories \ {Title(m.cat)} :
                    Bucket(session', cat) = Bucket(session, cat)]_vars

\* the upper-case "INTO ... Shopping" command filed noodle bar under Shopping
\* while its wording ("bar") set the current category to Dining
C12_FiledUnderNamedCategory ==
    /\ last.op = "ask" /\ last.branch = "add"
    /\ last.q = "ADD noodle bar INTO MY Shopping ITINERARY"
    /\ last.reply = <<"noodle bar has been added to your Shopping itinerary.">>
    /\ Get(session, "current_category", "") = "Dining"
    /\ Len(Bucket(session, "Shopping")) = 1
    /\ Bucket(session, "Shopping")[1].name = "noodle bar"
    /\ Bucket(session, "Dining") = <<>>

\* C13 as stated: a blank /ask request is rejected and leaves history,
\* current_category, pending_cuisine, awaiting_cuisine_expand and itinerary
\* as they were.
C13_BlankMutatesNothing ==
    [][(last'.op = "ask" /\ last'.q = "") =>
        /\ last'.status = "bad_request"
        /\ \A k \in {"history", "current_category", "pending_cuisine",
                     "awaiting_cuisine_expand", "itinerary"} :
              SameKey(session, session', k)]_vars

\* C13: an /ask request whose question is missing or blank is rejected with
\* an error response (status 400) and leaves the session as it was, except
\* that a session without a history gets an empty one.
C13_BlankOnlyCreatesHistory ==
    [][(last'.op = "ask" /\ last'.q = "") =>
        /\ last'.status = "bad_request" /\ last'.branch = "blank"
        /\ last'.reply = <<NoQuestionReply>>
        /\ last'.model_calls = 0
        /\ session' = IF Has(session, "history") THEN session
                      ELSE Put(session, "history", <<>>)]_vars

\* a blank request was rejected while a negotiation was pending, which it
\* left open
C13_BlankRejectedWhilePending ==
    /\ last.op = "ask" /\ last.status = "bad_request"
    /\ Awaiting(session) /\ Get(session, "pending_cuisine", "") = "thai"
    /\ Len(Get(session, "history", <<>>)) = 2

\* C14: when the chat-model call of an /ask turn fails, the turn fails: the
\* call is made once, no reply is returned, and no assistant message is
\* appended to the history (the stored session is the one the turn found, or
\* one whose history ends with the user's message); a reply that follows a
\* model call is the model's own.
C14_ModelFailureFailsTurn ==
    [][AskTurn =>
        /\ last'.model_calls <= 1
        /\ (last'.status = "ok" /\ last'.branch \in {"default", "expand_yes"}) =>
              (last'.model_calls = 1 /\ last'.reply \in ModelReplies)
        /\ (last'.status # "ok") =>
              /\ last'.status = "error" /\ last'.reply = <<>>
              /\ last'.branch \in {"default", "expand_yes"}
              /\ \/ session' = session
                 \/ /\ Has(session', "history")
                    /\ session'["history"] =
                          Append(Get(session, "history", <<>>), Msg("user", <<last'.q>>))]_vars

\* the model call of the "shop" turn failed: the stored history ends with the
\* user's message, no assistant message after it
C14_FailedTurnLeftUserMessage ==
    /\ last.op = "ask" /\ last.status = "error" /\ last.model_calls = 1
    /\ last.reply = <<>>
    /\ Get(session, "history", <<>>) = <<Msg("user", <<"shop">>)>>

\* bucket b without its entry at zero-based index i, the others in their order
Without(b, i) == [k \in 1..(Len(b) - 1) |-> IF k <= i THEN b[k] ELSE b[k + 1]]

\* the request names a bucket of the itinerary and an index inside it
RemoveApplies ==
    /\ last'.category \in Categories
    /\ 0 <= last'.index /\ last'.index < Len(Bucket(session, last'.category))

\* what a remove does to the buckets: the entry at the index goes, or nothing
RemoveEffect ==
    IF RemoveApplies
    THEN /\ Bucket(session', last'.category) =
               Without(Bucket(session, last'.category), last'.index)
         /\ \A cat \in Categories \ {last'.category} :
               Bucket(session', cat) = Bucket(session, cat)
    ELSE \A cat \in Categories : Bucket(session', cat) = Bucket(session, cat)

CodePoints == "\n ,0123456789:ABCDEFGHIJKLMNOPQRSTUVWXYZabcdefghijklmnopqrstuvwxyz"

\* Python a < b on str
RECURSIVE StrLess(_, _)
StrLess(a, b) ==
    IF Len(b) = 0 THEN FALSE
    ELSE IF Len(a) = 0 THEN TRUE
    ELSE IF Ch(a, 1) = Ch(b, 1) THEN StrLess(SubSeq(a, 2, Len(a)), SubSeq(b, 2, Len(b)))
    ELSE IndexIn(CodePoints, Ch(a, 1)) < IndexIn(CodePoints, Ch(b, 1))

\* similarities[:3]
TopK == 3

\* a comparison of the similarities alone
TupleGreaterByScore(a, b) == a.similarity > b.similarity

\* (score, text) > (score, text) on Python tuples
TupleGreater(a, b) ==
    \/ a.similarity > b.similarity
    \/ a.similarity = b.similarity /\ StrLess(b.text, a.text)

\* similarities.sort(reverse=True): descending, equal tuples in their order
RECURSIVE SortedReverse(_)
SortedReverse(sims) ==
    IF Len(sims) = 0 THEN <<>>
    ELSE LET tops == {i \in 1..Len(sims) : \A j \in 1..Len(sims) : ~TupleGreater(sims[j], sims[i])}
             i == CHOOSE i \in tops : \A j \in tops : i <= j
         IN <<sims[i]>> \o SortedReverse(SubSeq(sims, 1, i - 1) \o SubSeq(sims, i + 1, Len(sims)))

\* [text for _, text in similarities[:3]]
top_results(candidates) ==
    LET sorted == SortedReverse(candidates)
    IN [p \in 1..(IF Len(sorted) < TopK THEN Len(sorted) ELSE TopK) |-> sorted[p].text]

\* "\n\n".join(top_results)
RECURSIVE JoinBlank(_)
JoinBlank(texts) ==
    IF Len(texts) = 0 THEN ""
    ELSE IF Len(texts) = 1 THEN texts[1]
    ELSE texts[1] \o "\n\n" \o JoinBlank(Tail(texts))

\* a cuisine filter with no fallback
search_candidates_strict(chunks, gate, cuisine) ==
    IF cuisine # ""
    THEN SelectSeq(chunks, LAMBDA c : Contains(Lower(c.text), cuisine))
    ELSE chunks

\* the candidate set of search_similar(..., gate=, cuisine=): the chunks with
\* the cuisine term, else the chunks with the gate's concourse label, else all
search_candidates(chunks, gate, cuisine) ==
    LET by_cuisine == SelectSeq(chunks, LAMBDA c : Contains(Lower(c.text), cuisine))
        concourse == infer_concourse_from_gate(gate)
        by_concourse == SelectSeq(chunks, LAMBDA c : Contains(c.text, concourse))
    IN IF cuisine # "" /\ by_cuisine # <<>> THEN by_cuisine
       ELSE IF concourse # "Unknown" /\ by_concourse # <<>> THEN by_concourse
       ELSE chunks

search_similar(chunks, gate, cuisine) == JoinBlank(top_results(search_candidates(chunks, gate, cuisine)))

\* the inputs of a retrieval: a corpus of up to five chunks, each with a
\* similarity to the question; a cuisine; a gate
CorpusTexts ==
    embedded_chunks \o
    << "Title: Noodle Bar\nCategories: Thai\nLocations: Concourse B, Level 1",
       "Title: Sky Lounge\nCategories: Lounge\nLocations: Concourse C, Level 3" >>

Similarities == {1, 2, 3}

Corpora ==
    UNION {{[i \in 1..n |-> [text |-> CorpusTexts[i], similarity |-> sim[i]]] : sim \in [1..n -> Similarities]} : n \in 0..Len(CorpusTexts)}

RetrieveCuisines == {"", "thai", "klingon"}

RetrieveGates == {"", "B5", "C31", "Z99"}

InitRetrieve ==
    /\ session = EmptyDict
    /\ peer = EmptyDict
    /\ store = Startup
    /\ last \in {[op |-> "query", chunks |-> ch, gate |-> g, cuisine |-> c, candidates |-> <<>>, top |-> <<>>, context |-> ""] : ch \in Corpora, g \in RetrieveGates, c \in RetrieveCuisines}

Retrieve ==
    /\ last.op = "query"
    /\ last' = [last EXCEPT !.op = "retrieved",
                            !.candidates = search_candidates(last.chunks, last.gate, last.cuisine),
                            !.top = top_results(search_candidates(last.chunks, last.gate, last.cuisine)),
                            !.context = search_similar(last.chunks, last.gate, last.cuisine)]
    /\ UNCHANGED <<session, peer, store>>

NextRetrieve == Retrieve

SpecRetrieve == InitRetrieve /\ [][NextRetrieve]_vars

(***************************************************************************)
(* C16: a request served for one client leaves the other client's session  *)
(* -- its history, current_category, pending negotiation and itinerary --  *)
(* unchanged, and no request changes the embedded chunk list or the        *)
(* catalog index built at startup, however the two clients' requests       *)
(* interleave.                                                              *)
(***************************************************************************)
C16_SessionsIsolated ==
    [][/\ \A c \in Clients : (c # last'.client) => (SessionOf(c))' = SessionOf(c)
       /\ store' = store
       /\ store = Startup]_vars

\* client 2 has just been served while client 1 is in a negotiation, and the
\* two sessions differ in history, pending cuisine and itinerary
C16_PeerServedBesidePending ==
    /\ last.client = 2
    /\ last.op = "ask"
    /\ Awaiting(session)
    /\ ~Has(peer, "pending_cuisine")
    /\ Has(peer, "itinerary")
    /\ Len(Bucket(peer, "Dining")) = 1
    /\ ~Has(session, "itinerary")

(***************************************************************************)
(* C17: a scan discards the session's history, itinerary and pending       *)
(* negotiation, binds the passenger and queues the greeting; the next page *)
(* load appends the greeting once, so that history is then exactly one     *)
(* assistant message; a page load with no greeting queued appends nothing. *)
(***************************************************************************)
Queued(sess) == Get(sess, "just_scanned", FALSE)

C17_ScanThenGreetedOnce ==
    [][/\ (last'.op = "scan") =>
           /\ Get(session', "history", <<>>) = <<>>
           /\ ~Has(session', "itinerary")
           /\ ~Has(session', "pending_cuisine")
           /\ ~Has(session', "awaiting_cuisine_expand")
           /\ Get(session', "passenger_name", "") # ""
           /\ Queued(session')
       /\ (last'.op = "page" /\ Queued(session)) =>
           /\ ~Queued(session')
           /\ Len(Get(session', "history", <<>>)) = 1
           /\ Get(session', "history", <<>>)[1].role = "assistant"
       /\ (last'.op = "page" /\ ~Queued(session)) =>
           Get(session', "history", <<>>) = Get(session, "history", <<>>)]_vars

(***************************************************************************)
(* C18: the retriever takes as candidates the chunks containing the        *)
(* cuisine term when a cuisine is given and some chunk contains it, else   *)
(* the chunks containing the gate's concourse label when the gate maps to  *)
(* a concourse and some chunk contains it, else all chunks; it returns the *)
(* at most 3 top-ranked candidate texts, and a non-empty context whenever  *)
(* the corpus is non-empty, for every cuisine and gate.                    *)
(***************************************************************************)
Retrieved == last.op = "retrieved"

HasCuisine(c) == Contains(Lower(c.text), last.cuisine)

HasConcourse(c) == Contains(c.text, infer_concourse_from_gate(last.gate))

CuisineTier == last.cuisine # "" /\ \E i \in 1..Len(last.chunks) : HasCuisine(last.chunks[i])

ConcourseTier ==
    /\ ~CuisineTier
    /\ infer_concourse_from_gate(last.gate) # "Unknown"
    /\ \E i \in 1..Len(last.chunks) : HasConcourse(last.chunks[i])

TextsOf(chunks) == {chunks[i].text : i \in 1..Len(chunks)}

CandidateAt(text) == CHOOSE i \in 1..Len(last.candidates) : last.candidates[i].text = text

Sim(i) == last.candidates[i].similarity

Chosen == {CandidateAt(last.top[p]) : p \in 1..Len(last.top)}

\* candidate i is ranked before candidate j, ties decided by Tie(i, j)
RankedBefore(i, j, Tie(_, _)) == Sim(i) > Sim(j) \/ (Sim(i) = Sim(j) /\ Tie(i, j))

\* the returned texts are the first min(3, n) candidates of the ranking
TopRanked(Tie(_, _)) ==
    /\ Len(last.top) = (IF Len(last.candidates) < TopK THEN Len(last.candidates) ELSE TopK)
    /\ \A p \in 1..Len(last.top) : last.top[p] \in TextsOf(last.candidates)
    /\ \A p, q \in 1..Len(last.top) :
          (p < q) => RankedBefore(CandidateAt(last.top[p]), CandidateAt(last.top[q]), Tie)
    /\ \A p \in 1..Len(last.top), j \in (1..Len(last.candidates)) \ Chosen :
          RankedBefore(CandidateAt(last.top[p]), j, Tie)
    /\ (Len(last.candidates) = 1) => last.top = <<last.candidates[1].text>>

C19_TiesInOriginalOrder == Retrieved => TopRanked(LAMBDA i, j : i < j)

C19_TiesByDescendingText ==
    Retrieved => TopRanked(LAMBDA i, j : StrLess(last.candidates[j].text, last.candidates[i].text))

\* two of four candidates tie for the first place, and the later one in the
\* candidate list is returned first
C19_TieReturnedLaterFirst ==
    /\ Retrieved
    /\ Len(last.candidates) = 4
    /\ Len(last.top) = 3
    /\ Sim(CandidateAt(last.top[1])) = Sim(CandidateAt(last.top[2]))
    /\ Sim(CandidateAt(last.top[2])) > Sim(CandidateAt(last.top[3]))
    /\ CandidateAt(last.top[1]) > CandidateAt(last.top[2])

(***************************************************************************)
(* best_catalog_match as a function of its arguments (src/app.py 173-214). *)
(***************************************************************************)
MatchPlaces ==
    {"", "Curry House", "curry house", " CURRY-HOUSE ", "Thai Spot", "thai", "curry",
     "house", "spot", "o", "noodle bar", "Book Nook"}

MatchGates == {"", "B5", "b12", "C31", " c3", "A1", "E2", "Z99"}

InitMatch ==
    /\ session = EmptyDict
    /\ peer = EmptyDict
    /\ store = Startup
    /\ last \in {[op |-> "lookup", place |-> pl, gate |-> g, candidates |-> <<>>, matched |-> <<>>] : pl \in MatchPlaces, g \in MatchGates}

Match ==
    /\ last.op = "lookup"
    /\ last' = [last EXCEPT !.op = "matched",
                            !.candidates = match_candidates(last.place),
                            !.matched = best_catalog_match(last.place, last.gate)]
    /\ UNCHANGED <<session, peer, store>>

NextMatch == Match

SpecMatch == InitMatch /\ [][NextMatch]_vars

(***************************************************************************)
(* C20: best_catalog_match returns none when there is no candidate, the    *)
(* candidate when there is exactly one, and among several the first        *)
(* candidate in original order whose concourse label carries the letter of *)
(* the gate's concourse, or the first candidate in original order when the *)
(* gate maps to no concourse or no candidate carries the letter.           *)
(***************************************************************************)
GateLetter == concourse_letter_from_label(infer_concourse_from_gate(last.gate))

\* the candidates, by position, on the gate's concourse
SharingLetter ==
    {i \in 1..Len(last.candidates) :
        GateLetter # "" /\ concourse_letter_from_label(last.candidates[i].concourse) = GateLetter}

C20_BestMatchDeterministic ==
    (last.op = "matched") =>
        /\ (Len(last.candidates) = 0) => last.matched = <<>>
        /\ (Len(last.candidates) = 1) => last.matched = <<last.candidates[1]>>
        /\ (Len(last.candidates) > 1 /\ SharingLetter # {}) =>
              last.matched = <<last.candidates[CHOOSE i \in SharingLetter : \A j \in SharingLetter : i <= j]>>
        /\ (Len(last.candidates) > 1 /\ SharingLetter = {}) => last.matched = <<last.candidates[1]>>

\* three candidates, the third the only one on the gate's concourse
C20_LaterCandidatePreferred ==
    /\ last.op = "matched"
    /\ Len(last.candidates) = 3
    /\ SharingLetter = {3}
    /\ last.matched = <<last.candidates[3]>>

(***************************************************************************)
(* parse_location_code (src/smart.py 21-49) as a function of its argument. *)
(* An indexing past the end of a segment raises IndexError.                *)
(***************************************************************************)
\* s.split("-")
RECURSIVE SplitHyphen(_)
SplitHyphen(s) ==
    IF ~Contains(s, "-") THEN <<s>>
    ELSE With(CHOOSE i \in 1..Len(s) : Ch(s, i) = "-" /\ \A j \in 1..(i - 1) : Ch(s, j) # "-",
              LAMBDA i : <<SubSeq(s, 1, i - 1)>> \o SplitHyphen(SubSeq(s, i + 1, Len(s))))

\* concourse_map.get(area_letter.upper(), f"Area {area_letter}")
concourse_map(area_letter) ==
    With(UpperCh(area_letter),
         LAMBDA u :
            IF \E c \in {"A", "B", "C", "D", "E"} : u = c THEN "Concourse " \o u
            ELSE IF u = "L" THEN "Landside"
            ELSE IF u = "U" THEN "Unknown Area"
            ELSE "Area " \o area_letter)

Returned(value) == [raised |-> FALSE, value |-> value]

IndexError == [raised |-> TRUE, value |-> ""]

parse_location_code(code) ==
    With(SplitHyphen(code),
         LAMBDA parts :
            IF Len(parts) # 3 THEN Returned(code)
            ELSE IF Len(parts[2]) < 5 THEN IndexError
            ELSE IF Len(parts[3]) < 3 THEN IndexError
            ELSE Returned(concourse_map(Ch(parts[3], 3)) \o ", Level " \o Ch(parts[2], 5)))

LevelSegments == {"UL001", "UL002", "UL00", "", "UL0013"}

AreaSegments == {"IDA0431", "IDb0364", "IDC1", "IDD", "IDe", "IDL0001", "IDU0002", "IDZ0009", "ID", "I"}

LocationCodes ==
    {"B01-" \o l \o "-" \o a : l \in LevelSegments, a \in AreaSegments}
      \cup {"", "B01", "B01-UL001", "B01-UL001-IDA0431-X", "Gate B5"}

InitDecode ==
    /\ session = EmptyDict
    /\ peer = EmptyDict
    /\ store = Startup
    /\ last \in {[op |-> "code", code |-> c, raised |-> FALSE, value |-> ""] : c \in LocationCodes}

Decode ==
    /\ last.op = "code"
    /\ last' = [last EXCEPT !.op = "decoded",
                            !.raised = parse_location_code(last.code).raised,
                            !.value = parse_location_code(last.code).value]
    /\ UNCHANGED <<session, peer, store>>

NextDecode == Decode

SpecDecode == InitDecode /\ [][NextDecode]_vars

(***************************************************************************)
(* C21: location decoding never fails: a code of exactly three             *)
(* hyphen-separated segments, whatever their lengths, decodes to           *)
(* "<label>, Level <digit>" (A-E: "Concourse X", L: "Landside", U:         *)
(* "Unknown Area", another letter: "Area <letter>"), and a code of any     *)
(* other segment count is returned unchanged.                              *)
(***************************************************************************)
AreaLabels ==
    {"Concourse A", "Concourse B", "Concourse C", "Concourse D", "Concourse E",
     "Landside", "Unknown Area"}

C21_DecodingTotal ==
    (last.op = "decoded") =>
        /\ ~last.raised
        /\ (Len(SplitHyphen(last.code)) # 3) => last.value = last.code
        /\ (Len(SplitHyphen(last.code)) = 3) =>
              \E label \in AreaLabels \cup {"Area " \o Ch(LowerAlpha \o UpperAlpha, i) : i \in 1..52} :
              \E d \in 1..Len(DigitChars) :
                  last.value = label \o ", Level " \o Ch(DigitChars, d)

(***************************************************************************)
(* GET /directions (src/app.py 28-73).  The query string of the request is *)
(* its list of (key, value) pairs in request order; the three map          *)
(* settings are the defaults of their environment variables.               *)
(***************************************************************************)
HIA_MAP_BASE == "https://visiophptest-c7fpchb0bkfgajd3.swedencentral-01.azurewebsites.net/visioweb/application/mapviewer-uikit/mapviewer.html"

HIA_MAP_SRC == "B01-UL001-IDA0394"

HIA_MAP_FALLBACK_DST == "B01-UL001-IDB0364"

\* request.args.getlist(key)
RECURSIVE args_getlist(_, _)
args_getlist(args, key) ==
    IF Len(args) = 0 THEN <<>>
    ELSE (IF args[1][1] = key THEN <<args[1][2]>> ELSE <<>>) \o args_getlist(Tail(args), key)

\* request.args.get(key, default)
args_get(args, key, default) ==
    IF Len(args_getlist(args, key)) = 0 THEN default ELSE args_getlist(args, key)[1]

\* s.split(",")
RECURSIVE SplitComma(_)
SplitComma(s) ==
    IF ~Contains(s, ",") THEN <<s>>
    ELSE With(CHOOSE i \in 1..Len(s) : Ch(s, i) = "," /\ \A j \in 1..(i - 1) : Ch(s, j) # ",",
              LAMBDA i : <<SubSeq(s, 1, i - 1)>> \o SplitComma(SubSeq(s, i + 1, Len(s))))

\* [w.strip() for w in items if w.strip()]
RECURSIVE StrippedNonEmpty(_)
StrippedNonEmpty(items) ==
    IF Len(items) = 0 THEN <<>>
    ELSE (IF Strip(items[1]) # "" THEN <<Strip(items[1])>> ELSE <<>>) \o StrippedNonEmpty(Tail(items))

\* urllib.parse.quote(v): letters, digits and _ . - ~ / are kept; of the other
\* characters the modelled identifiers hold the space and the comma
QuoteCh(c) ==
    IF c = " " THEN "%20"
    ELSE IF c = "," THEN "%2C"
    ELSE c

RECURSIVE Quote(_)
Quote(v) == IF Len(v) = 0 THEN "" ELSE QuoteCh(Ch(v, 1)) \o Quote(SubSeq(v, 2, Len(v)))

\* "&".join(f"{k}={quote(v)}" ...) after the src parameter
RECURSIVE WaypointParams(_)
WaypointParams(waypoints) ==
    IF Len(waypoints) = 0 THEN ""
    ELSE "&waypoints=" \o Quote(waypoints[1]) \o WaypointParams(Tail(waypoints))

MapUrl(waypoints) == HIA_MAP_BASE \o "?src=" \o Quote(HIA_MAP_SRC) \o WaypointParams(waypoints)

\* the waypoints of the request: the listed ones, else the comma-separated
\* ones, else the legacy dst, else the fallback
directions_waypoints(args) ==
    With(args_getlist(args, "waypoints"),
         LAMBDA listed :
            With(IF Len(listed) > 0 THEN listed
                 ELSE IF args_get(args, "waypoints", "") # ""
                 THEN StrippedNonEmpty(SplitComma(args_get(args, "waypoints", "")))
                 ELSE <<>>,
                 LAMBDA w1 :
                    With(IF Len(w1) > 0 THEN w1
                         ELSE IF Strip(args_get(args, "dst", "")) # ""
                         THEN <<Strip(args_get(args, "dst", ""))>>
                         ELSE <<>>,
                         LAMBDA w2 : IF Len(w2) > 0 THEN w2 ELSE <<HIA_MAP_FALLBACK_DST>>)))

\* the Location of the redirect
directions(args) == MapUrl(directions_waypoints(args))

MaxArgs == 3

WaypointValues == {"ID1", "ID2", "ID1,ID2", "Gate B5"}

DstValues == {"ID1", "ID2", ""}

ArgPairs == ({"waypoints"} \X WaypointValues) \cup ({"dst"} \X DstValues)

InitDirections ==
    /\ session = EmptyDict
    /\ peer = EmptyDict
    /\ store = Startup
    /\ last \in {[op |-> "directions", args |-> a, location |-> ""] : a \in UNION {[1..n -> ArgPairs] : n \in 0..MaxArgs}}

Directions ==
    /\ last.op = "directions"
    /\ last' = [last EXCEPT !.op = "redirected", !.location = directions(last.args)]
    /\ UNCHANGED <<session, peer, store>>

NextDirections == Directions

SpecDirections == InitDirections /\ [][NextDirections]_vars

(***************************************************************************)
(* C22: /directions redirects to the map URL whose src is the fixed source *)
(* and whose waypoints are the requested identifiers in request order:     *)
(* those of the repeated waypoints parameter, each comma-separated item of *)
(* a value being its own waypoint, else the single legacy dst, else the    *)
(* fixed fallback destination.                                             *)
(***************************************************************************)
RECURSIVE EachItem(_)
EachItem(values) ==
    IF Len(values) = 0 THEN <<>> ELSE SplitComma(values[1]) \o EachItem(Tail(values))

RequestedWaypoints ==
    IF Len(args_getlist(last.args, "waypoints")) > 0
    THEN EachItem(args_getlist(last.args, "waypoints"))
    ELSE IF args_get(last.args, "dst", "") # "" THEN <<args_get(last.args, "dst", "")>>
    ELSE <<HIA_MAP_FALLBACK_DST>>

C22_DirectionsWaypoints ==
    (last.op = "redirected") =>
        last.location = HIA_MAP_BASE \o "?src=" \o HIA_MAP_SRC \o WaypointParams(RequestedWaypoints)

(***************************************************************************)
(* C23: in every reachable session state awaiting_cuisine_expand is set if *)
(* and only if pending_cuisine holds a non-empty cuisine; the two are set  *)
(* together by the unavailable-cuisine branch and cleared together by the  *)
(* affirmative branch, the negative branch, a scan and a reset, and no     *)
(* other operation changes either.  (A failed turn whose session the       *)
(* server does not store leaves the whole session as it was.)              *)
(***************************************************************************)
PendingPaired(sess) ==
    /\ Awaiting(sess) <=> Get(sess, "pending_cuisine", "") # ""
    /\ Has(sess, "awaiting_cuisine_expand") <=> Has(sess, "pending_cuisine")

PendingChanged ==
    \/ ~SameKey(session, session', "pending_cuisine")
    \/ ~SameKey(session, session', "awaiting_cuisine_expand")

C23_PendingPairedAlways ==
    [][/\ PendingPaired(session) /\ PendingPaired(session')
       /\ (last'.op = "ask" /\ last'.branch = "ask_expand") =>
             (Awaiting(session') /\ Get(session', "pending_cuisine", "") = QuestionFacts[last'.q].cuisine)
       /\ (last'.op = "ask" /\ last'.branch \in {"expand_yes", "expand_no"}) =>
             (NegotiationClosed(session') \/ TurnDiscarded)
       /\ (last'.op \in {"scan", "reset"}) => NegotiationClosed(session')
       /\ PendingChanged =>
             \/ last'.op = "ask" /\ last'.branch \in {"ask_expand", "expand_yes", "expand_no"}
             \/ last'.op \in {"scan", "reset"}]_vars

\* an unclear answer was served while a thai negotiation is pending: both
\* keys are still set
C23_PairKeptByUnclearAnswer ==
    /\ last.op = "ask"
    /\ last.branch = "expand_unclear"
    /\ Awaiting(session)
    /\ Get(session, "pending_cuisine", "") = "thai"

(***************************************************************************)
(* C24: a numeric selection saves an entry only when the latest assistant  *)
(* message in history is a recommendation list: right after a turn whose   *)
(* reply was an add or selection confirmation, a clarification nudge or a  *)
(* cuisine-negotiation prompt, a purely numeric message gets the nudge and *)
(* leaves the itinerary unchanged, so that two numeric messages in a row   *)
(* never both save an entry.                                               *)
(***************************************************************************)
ScriptedBranches == {"add", "select", "nudge", "ask_expand", "expand_no", "expand_unclear"}

C24_NumericNeedsLatestList ==
    [][(AskTurn /\ QuestionFacts[last'.q].digits) =>
        /\ (last'.branch = "select") =>
              parse_recos_from_html(LastAssistant(Get(session, "history", <<>>))) # <<>>
        /\ (last.op = "ask" /\ last.status = "ok" /\ last.branch \in ScriptedBranches) =>
              /\ last'.branch = "nudge"
              /\ last'.reply = <<Nudger>>
              /\ SameKey(session, session', "itinerary")]_vars

====
